---- MODULE Spec2Model ----
(***************************************************************************)
(* A model of the constraint graph of lib/Sema/ConstraintGraph.cpp: the    *)
(* node store, the change journal and its scopes, the mutation API, the    *)
(* connected-components engine and edge contraction.                       *)
(*                                                                         *)
(* A type variable is its ID (a natural number).  A constraint is an index *)
(* into ConstraintTable.  A type is a record: the type variables it        *)
(* mentions (in getTypeVariables order, duplicates kept), whether it is    *)
(* itself a type variable, and whether it has an InOut shape inside.       *)
(***************************************************************************)
EXTENDS Integers, Sequences, FiniteSets, TLC

\* ------------------------------------------------------------------ bounds
\* Longest journal the model lets a scope build up.
MaxChanges == 3
\* Most calls the constraint system makes into the graph in one run.
MaxOps == 4
\* Deepest nesting of scopes.
MaxScopes == 2

\* ------------------------------------------------------- the fixed universe
TypeVars == {0, 1, 2}

TypeVarType(v) == [vars |-> <<v>>, isTypeVariable |-> TRUE, inOut |-> FALSE]
StructType(vs) == [vars |-> vs, isTypeVariable |-> FALSE, inOut |-> FALSE]
InOutType(vs) == [vars |-> vs, isTypeVariable |-> FALSE, inOut |-> TRUE]

\* The constraints the constraint system may create.  1..4 are used by the
\* mutation specification: two constraints over type variables that share
\* $T1, and two constraints that mention no type variable.  5..9 are used
\* by the connected-components specification: a chain $T0 - $T1 - $T2 - $T3
\* of ordinary constraints (5, 9, 6) and two one-way constraints between $T0
\* and $T2, one in each direction (7: $T2 is solved before $T0, 8: $T0 is
\* solved before $T2).  10 and 11 are used, with 1, 2 and 9, by the
\* contraction specification: a parameter binding of $T0 to $T1 and an
\* equality of $T0 with a type that is not a type variable.  12, a pointer
\* binding of $T2 to $T0, joins them in the single-pass specification.
\* 13, a binding of $T1 to $T2, makes with 1 and 6 the chain
\* $T0 - $T1 - $T2 - $T3 of the gathering specification.  14, a one-way
\* constraint between $T1 and $T3, joins 5..9 in the connected-components
\* specification: with 5 and 6 its two ends are not the lowest type
\* variables of their sets.
ConstraintTable ==
  << [Kind |-> "Bind",       First |-> TypeVarType(0), Second |-> TypeVarType(1)],
     [Kind |-> "Equal",      First |-> TypeVarType(1), Second |-> TypeVarType(2)],
     [Kind |-> "Conversion", First |-> StructType(<<>>), Second |-> StructType(<<>>)],
     [Kind |-> "Conversion", First |-> StructType(<<>>), Second |-> StructType(<<>>)],
     [Kind |-> "Equal",      First |-> TypeVarType(0), Second |-> TypeVarType(1)],
     [Kind |-> "Equal",      First |-> TypeVarType(2), Second |-> TypeVarType(3)],
     [Kind |-> "OneWayBind", First |-> TypeVarType(0), Second |-> TypeVarType(2)],
     [Kind |-> "OneWayBindParam", First |-> TypeVarType(2), Second |-> TypeVarType(0)],
     [Kind |-> "Conversion", First |-> TypeVarType(1), Second |-> TypeVarType(2)],
     [Kind |-> "BindParam",  First |-> TypeVarType(0), Second |-> TypeVarType(1)],
     [Kind |-> "Equal",      First |-> TypeVarType(0), Second |-> StructType(<<2>>)],
     [Kind |-> "BindToPointerType", First |-> TypeVarType(2), Second |-> TypeVarType(0)],
     [Kind |-> "Bind",       First |-> TypeVarType(1), Second |-> TypeVarType(2)],
     [Kind |-> "OneWayBind", First |-> TypeVarType(1), Second |-> TypeVarType(3)] >>

MutationConstraints == {1, 2, 3, 4}

\* The types a type variable may be bound to, by the type variables they
\* mention.  0 in a FixedType slot means "no fixed type".
FixedTypeTable ==
  << <<>>,          \* a type without type variables
     <<1>>,
     <<0, 1>>,
     <<2, 2>> >>    \* mentions $T2 twice

\* The calls the constraint system makes in the mutation specification:
\* the pairs it merges, and the (type variable, fixed type) pairs it binds.
\* $T1 may be bound to a type that mentions $T1 itself.
Merges == {<<0, 1>>, <<1, 2>>}
Bindings == {<<2, 1>>, <<0, 2>>, <<1, 3>>, <<0, 4>>}

\* -------------------------------------------------------------- sequences
Range(s) == {s[i] : i \in 1..Len(s)}

Contains(s, x) == \E i \in 1..Len(s) : s[i] = x

\* std::find: the first position of x in s, 0 when absent.
IndexOf(s, x) ==
  IF Contains(s, x) THEN CHOOSE i \in 1..Len(s) : s[i] = x /\ \A j \in 1..(i-1) : s[j] # x
  ELSE 0

PopBack(s) == SubSeq(s, 1, Len(s) - 1)

Count(s, x) == Cardinality({i \in 1..Len(s) : s[i] = x})

\* llvm's uniquing of a list, keeping first occurrences.
RECURSIVE Unique(_)
Unique(s) ==
  IF s = <<>> THEN <<>>
  ELSE LET r == Unique(PopBack(s))
       IN IF Contains(r, s[Len(s)]) THEN r ELSE Append(r, s[Len(s)])

\* ------------------------------------------------------------- constraints
getKind(c) == ConstraintTable[c].Kind
getFirstType(c) == ConstraintTable[c].First
getSecondType(c) == ConstraintTable[c].Second

\* Constraint::getTypeVariables: every type variable of both types, uniqued.
getTypeVariables(c) == Unique(getFirstType(c).vars \o getSecondType(c).vars)

\* ------------------------------------------------------------------- state
VARIABLES
  TypeVariables,        \* ConstraintGraph::TypeVariables
  GraphNode,            \* per type variable: impl.getGraphNode(), NullNode or a node
  GraphIndex,           \* per type variable: impl.getGraphIndex()
  OrphanedConstraints,  \* ConstraintGraph::OrphanedConstraints
  Changes,              \* ConstraintGraph::Changes, the journal
  ActiveScope,          \* ConstraintGraph::ActiveScope: index into scopes, 0 is null
  scopes,               \* the live ConstraintGraphScope objects, innermost last
  Representative,       \* the constraint system's union-find, flattened
  FixedType,            \* the constraint system's fixed types (0: none)
  InactiveConstraints,  \* the constraint system's constraint list, as a set
  ActiveConstraints,    \* the constraint system's work list, as a set
  solverState,          \* CS.solverState: NoSolverState or its constraint sets
  Options,              \* per type variable: canBindToLValue, canBindToInOut
  PotentialBindings,    \* per type variable: CS.getPotentialBindings
  aborted,              \* an assertion failed
  ops,                  \* calls into the graph made so far
  lastScope,            \* the scope the last step destroyed, NoScope otherwise
  result                \* what the last step returned or was asked, NoResult otherwise

\* The parts of the constraint system only edge contraction looks at.
solverVars == << ActiveConstraints, solverState, Options, PotentialBindings >>

vars == << TypeVariables, GraphNode, GraphIndex, OrphanedConstraints, Changes,
           ActiveScope, scopes, Representative, FixedType, InactiveConstraints,
           ActiveConstraints, solverState, Options, PotentialBindings,
           aborted, ops, lastScope, result >>

NullNode == [Null |-> TRUE]

NoScope == [None |-> TRUE]

NoResult == [Kind |-> "none"]

NoSolverState == [present |-> FALSE]

\* No potential bindings for a type variable.
NoBindings == [present |-> FALSE]

\* new ConstraintGraphNode(typeVar)
NewNode(tv) ==
  [TypeVar |-> tv, Constraints |-> <<>>, ConstraintIndex |-> {},
   EquivalenceClass |-> <<>>, FixedBindings |-> <<>>]

\* The graph and the parts of the constraint system it reads, as one value
\* the operations below transform.  ub is the outcome picked for undefined
\* behaviour, should an operation run into it.
World(ub) ==
  [TypeVariables |-> TypeVariables, GraphNode |-> GraphNode,
   GraphIndex |-> GraphIndex, OrphanedConstraints |-> OrphanedConstraints,
   Changes |-> Changes, ActiveScope |-> ActiveScope,
   Representative |-> Representative, FixedType |-> FixedType,
   InactiveConstraints |-> InactiveConstraints,
   ActiveConstraints |-> ActiveConstraints, solverState |-> solverState,
   Options |-> Options, PotentialBindings |-> PotentialBindings,
   aborted |-> aborted, ub |-> ub]

Abort(g) == [g EXCEPT !.aborted = TRUE]

\* CS.getRepresentative
getRepresentative(g, tv) == g.Representative[tv]

\* CS.getFixedType: the fixed type of the representative, 0 when unbound.
getFixedType(g, tv) == g.FixedType[g.Representative[tv]]

hasTypeVariable(fixed) == FixedTypeTable[fixed] # <<>>

\* --------------------------------------------------------------------------
\* Change records (a tagged union in the source; unused members are 0).
addedTypeVariable(tv) ==
  [Kind |-> "AddedTypeVariable", TypeVar |-> tv, TheConstraint |-> 0,
   PrevSize |-> 0, FixedType |-> 0]
addedConstraint(c) ==
  [Kind |-> "AddedConstraint", TypeVar |-> 0, TheConstraint |-> c,
   PrevSize |-> 0, FixedType |-> 0]
removedConstraint(c) ==
  [Kind |-> "RemovedConstraint", TypeVar |-> 0, TheConstraint |-> c,
   PrevSize |-> 0, FixedType |-> 0]
extendedEquivalenceClass(tv, prevSize) ==
  [Kind |-> "ExtendedEquivalenceClass", TypeVar |-> tv, TheConstraint |-> 0,
   PrevSize |-> prevSize, FixedType |-> 0]
boundTypeVariable(tv, fixed) ==
  [Kind |-> "BoundTypeVariable", TypeVar |-> tv, TheConstraint |-> 0,
   PrevSize |-> 0, FixedType |-> fixed]

\* Changes.push_back(change), whether or not a scope is active.
RecordChangeAlways(g, change) == [g EXCEPT !.Changes = Append(@, change)]
\* Changes.push_back(change), done only under an active scope.
RecordChange(g, change) ==
  IF g.ActiveScope # 0 THEN [g EXCEPT !.Changes = Append(@, change)] ELSE g

\* ------------------------------------------------------------ node mutation
\* ConstraintGraphNode::addConstraint
NodeAddConstraint(g, tv, c) ==
  LET node == g.GraphNode[tv] IN
  IF \E p \in node.ConstraintIndex : p[1] = c THEN Abort(g)
  ELSE [g EXCEPT !.GraphNode[tv] =
          [node EXCEPT !.ConstraintIndex = @ \cup {<<c, Len(node.Constraints)>>},
                       !.Constraints = Append(@, c)]]

\* The tail of ConstraintGraphNode::removeConstraint: the entry of the
\* constraint at index is already erased from the map; take it out of the
\* vector, moving the last constraint into its place.
removeAtKeepIndex(node, index, erased) ==
  LET lastIndex == Len(node.Constraints) - 1
  IN IF index = lastIndex
     THEN [node EXCEPT !.ConstraintIndex = erased, !.Constraints = PopBack(@)]
     ELSE [node EXCEPT
             !.ConstraintIndex = erased,
             !.Constraints =
                PopBack([@ EXCEPT ![index + 1] = node.Constraints[lastIndex + 1]])]
removeAtPopOnly(node, index, erased) ==
  [node EXCEPT !.ConstraintIndex = erased, !.Constraints = PopBack(@)]
removeAt(node, index, erased) ==
  LET lastIndex == Len(node.Constraints) - 1
  IN IF index = lastIndex
     THEN [node EXCEPT !.ConstraintIndex = erased, !.Constraints = PopBack(@)]
     ELSE
       LET lastConstraint == node.Constraints[lastIndex + 1]
       IN [node EXCEPT
             !.ConstraintIndex =
                {p \in erased : p[1] # lastConstraint} \cup {<<lastConstraint, index>>},
             !.Constraints = PopBack([@ EXCEPT ![index + 1] = lastConstraint])]

\* ConstraintGraphNode::removeConstraint
NodeRemoveConstraint(g, tv, c) ==
  LET node == g.GraphNode[tv] IN
  IF ~ \E p \in node.ConstraintIndex : p[1] = c THEN Abort(g)
  ELSE
    LET pos == CHOOSE p \in node.ConstraintIndex : p[1] = c
        index == pos[2]
        erased == node.ConstraintIndex \ {pos}
    IN IF index >= Len(node.Constraints) \/ node.Constraints[index + 1] # c
       THEN Abort(g)
       ELSE [g EXCEPT !.GraphNode[tv] = removeAt(node, index, erased)]

\* ConstraintGraphNode::getEquivalenceClassUnsafe: the class, made [self]
\* when it is still empty (the member is mutable).
getEquivalenceClassUnsafe(g, tv) ==
  IF g.GraphNode[tv].EquivalenceClass = <<>>
  THEN [g EXCEPT !.GraphNode[tv].EquivalenceClass = <<tv>>]
  ELSE g

\* ConstraintGraphNode::getEquivalenceClass
getEquivalenceClass(g, tv) ==
  IF g.Representative[tv] # tv THEN Abort(g)
  ELSE getEquivalenceClassUnsafe(g, tv)

\* ConstraintGraphNode::addToEquivalenceClass
addToEquivalenceClass(g, tv, typeVars) ==
  IF g.Representative[tv] # tv THEN Abort(g)
  ELSE LET g1 == getEquivalenceClassUnsafe(g, tv)
       IN [g1 EXCEPT !.GraphNode[tv].EquivalenceClass = @ \o typeVars]

\* ConstraintGraphNode::addFixedBinding
addFixedBinding(g, tv, typeVar) ==
  [g EXCEPT !.GraphNode[tv].FixedBindings = Append(@, typeVar)]

\* ConstraintGraphNode::removeFixedBinding: pops the last binding, whatever
\* typeVar is.  pop_back on an empty vector is undefined: an assertion of
\* the vector fails, or the build goes on with a vector whose content is
\* whatever g.ub says.
removeFixedBinding(g, tv, typeVar) ==
  IF g.GraphNode[tv].FixedBindings # <<>>
  THEN [g EXCEPT !.GraphNode[tv].FixedBindings = PopBack(@)]
  ELSE CASE g.ub = "abort" -> Abort(g)
         [] g.ub = "empty" -> g
         [] OTHER -> [g EXCEPT !.GraphNode[tv].FixedBindings = <<typeVar>>]

UBOutcomes == {"abort", "empty", "garbage"}

\* ------------------------------------------------------------ graph mutation
\* The index lookupNode gives a new node: the size of TypeVariables before
\* the push_back.
newGraphIndex(g) == Len(g.TypeVariables)

RECURSIVE lookupNode(_, _)
RECURSIVE mergeNodes(_, _, _)
RECURSIVE bindTypeVariable(_, _, _)
RECURSIVE bindLoop(_, _, _, _)

\* lookupNode leaving a new node as it is allocated.
lookupNodeBare(g, typeVar) ==
  IF g.aborted THEN g
  ELSE IF g.GraphNode[typeVar] # NullNode
  THEN IF g.GraphIndex[typeVar] < Len(g.TypeVariables)
          /\ g.TypeVariables[g.GraphIndex[typeVar] + 1] = typeVar
       THEN g ELSE Abort(g)
  ELSE RecordChange([g EXCEPT !.GraphNode[typeVar] = NewNode(typeVar),
                              !.GraphIndex[typeVar] = newGraphIndex(g),
                              !.TypeVariables = Append(@, typeVar)],
                    addedTypeVariable(typeVar))

\* ConstraintGraph::lookupNode (operator[])
lookupNode(g, typeVar) ==
  IF g.aborted THEN g
  ELSE IF g.GraphNode[typeVar] # NullNode
  THEN IF g.GraphIndex[typeVar] < Len(g.TypeVariables)
          /\ g.TypeVariables[g.GraphIndex[typeVar] + 1] = typeVar
       THEN g ELSE Abort(g)
  ELSE
    LET index == newGraphIndex(g)
        g1 == [g EXCEPT !.GraphNode[typeVar] = NewNode(typeVar),
                        !.GraphIndex[typeVar] = index,
                        !.TypeVariables = Append(@, typeVar)]
        g2 == RecordChange(g1, addedTypeVariable(typeVar))
        typeVarRep == getRepresentative(g2, typeVar)
    IN IF typeVar # typeVarRep THEN mergeNodes(g2, typeVar, typeVarRep)
       ELSE IF getFixedType(g2, typeVarRep) # 0
       THEN bindTypeVariable(g2, typeVar, getFixedType(g2, typeVarRep))
       ELSE g2

\* ConstraintGraph::mergeNodes
mergeNodes(g, typeVar1, typeVar2) ==
  IF g.aborted THEN g
  ELSE IF getRepresentative(g, typeVar1) # getRepresentative(g, typeVar2)
  THEN Abort(g)
  ELSE
    LET typeVarRep == getRepresentative(g, typeVar1)
        typeVarNonRep == IF typeVar1 = typeVarRep THEN typeVar2 ELSE typeVar1
        \* with nonRepNode looked up: extend the representative's class
        extend(g3) ==
          IF g3.aborted THEN g3
          ELSE LET g4 == getEquivalenceClassUnsafe(g3, typeVarNonRep)
               IN addToEquivalenceClass(
                    g4, typeVarRep, g4.GraphNode[typeVarNonRep].EquivalenceClass)
        \* with the class read through its accessor: record its size
        record(gm) ==
          IF gm.aborted THEN gm
          ELSE RecordChange(gm, extendedEquivalenceClass(
                 typeVarRep, Len(gm.GraphNode[typeVarRep].EquivalenceClass)))
        \* with repNode looked up
        merge(g1) ==
          IF g1.aborted THEN g1
          ELSE IF ~(typeVar1 = typeVarRep \/ typeVar2 = typeVarRep) THEN Abort(g1)
          ELSE extend(lookupNode(
                 IF g1.ActiveScope # 0
                 THEN record(getEquivalenceClass(g1, typeVarRep))
                 ELSE g1,
                 typeVarNonRep))
    IN merge(lookupNode(g, typeVarRep))

\* The loop of bindTypeVariable over typeVars[i..], the type variables
\* before position i being the known ones.
bindLoop(g, typeVar, typeVars, i) ==
  IF g.aborted \/ i > Len(typeVars) THEN g
  ELSE
    LET otherTypeVar == typeVars[i]
        seen == \E j \in 1..(i-1) : typeVars[j] = otherTypeVar
        \* with the other node looked up
        bind(g1) ==
          IF g1.aborted THEN g1
          ELSE addFixedBinding(addFixedBinding(g1, otherTypeVar, typeVar),
                               typeVar, otherTypeVar)
    IN IF seen \/ typeVar = otherTypeVar THEN bindLoop(g, typeVar, typeVars, i + 1)
       ELSE bindLoop(bind(lookupNode(g, otherTypeVar)), typeVar, typeVars, i + 1)

\* bindTypeVariable without its early exit.
bindTypeVariableAlways(g, typeVar, fixed) ==
  IF g.aborted THEN g
  ELSE
    LET record(g2) ==
          IF g2.aborted THEN g2
          ELSE RecordChange(g2, boundTypeVariable(typeVar, fixed))
    IN record(bindLoop(lookupNode(g, typeVar), typeVar, FixedTypeTable[fixed], 1))

\* ConstraintGraph::bindTypeVariable
bindTypeVariable(g, typeVar, fixed) ==
  IF g.aborted THEN g
  ELSE IF ~hasTypeVariable(fixed) THEN g
  ELSE
    LET record(g2) ==
          IF g2.aborted THEN g2
          ELSE RecordChange(g2, boundTypeVariable(typeVar, fixed))
    IN record(bindLoop(lookupNode(g, typeVar), typeVar, FixedTypeTable[fixed], 1))

RECURSIVE unbindLoop(_, _, _, _)
\* The loop of unbindTypeVariable over typeVars[i..].
unbindLoop(g, typeVar, typeVars, i) ==
  IF g.aborted \/ i > Len(typeVars) THEN g
  ELSE
    LET otherTypeVar == typeVars[i]
        seen == \E j \in 1..(i-1) : typeVars[j] = otherTypeVar
        \* with the other node looked up, and with its binding removed
        removeOther(g1) ==
          IF g1.aborted THEN g1 ELSE removeFixedBinding(g1, otherTypeVar, typeVar)
        removeOwn(g2) ==
          IF g2.aborted THEN g2 ELSE removeFixedBinding(g2, typeVar, otherTypeVar)
    IN IF seen THEN unbindLoop(g, typeVar, typeVars, i + 1)
       ELSE unbindLoop(removeOwn(removeOther(lookupNode(g, otherTypeVar))),
                       typeVar, typeVars, i + 1)

\* ConstraintGraph::unbindTypeVariable
unbindTypeVariable(g, typeVar, fixed) ==
  IF g.aborted THEN g
  ELSE IF ~hasTypeVariable(fixed) THEN g
  ELSE unbindLoop(lookupNode(g, typeVar), typeVar, FixedTypeTable[fixed], 1)

\* removeNode forgetting to take the type variable off the list.
removeNodeKeepListed(g, typeVar) == [g EXCEPT !.GraphNode[typeVar] = NullNode]

\* ConstraintGraph::removeNode
removeNode(g, typeVar) ==
  LET index == g.GraphIndex[typeVar]
      lastIndex == Len(g.TypeVariables) - 1
      moved == IF index < lastIndex
               THEN [g.TypeVariables EXCEPT ![index + 1] = g.TypeVariables[lastIndex + 1]]
               ELSE g.TypeVariables
  IN [g EXCEPT !.GraphNode[typeVar] = NullNode,
               !.TypeVariables = PopBack(moved)]

RECURSIVE addConstraintLoop(_, _, _, _)
\* The loop of addConstraint over referencedTypeVars[i..].
addConstraintLoop(g, c, typeVars, i) ==
  IF g.aborted \/ i > Len(typeVars) THEN g
  ELSE LET add(g1) ==
             IF g1.aborted THEN g1 ELSE NodeAddConstraint(g1, typeVars[i], c)
       IN addConstraintLoop(add(lookupNode(g, typeVars[i])), c, typeVars, i + 1)

\* ConstraintGraph::addConstraint
addConstraint(g, c) ==
  IF g.aborted THEN g
  ELSE
    LET referencedTypeVars == getTypeVariables(c)
        \* with the constraint in the nodes of its type variables
        finish(g1) ==
          IF g1.aborted THEN g1
          ELSE RecordChange(
                 IF referencedTypeVars = <<>>
                 THEN [g1 EXCEPT !.OrphanedConstraints = Append(@, c)]
                 ELSE g1,
                 addedConstraint(c))
    IN finish(addConstraintLoop(g, c, referencedTypeVars, 1))

RECURSIVE removeConstraintLoop(_, _, _, _)
\* The loop of removeConstraint destroying each node it leaves without
\* constraints.
removeConstraintLoopCollecting(g, c, typeVars, i) ==
  IF g.aborted \/ i > Len(typeVars) THEN g
  ELSE LET collect(g2) ==
             IF g2.aborted THEN g2
             ELSE IF g2.GraphNode[typeVars[i]] # NullNode
                     /\ g2.GraphNode[typeVars[i]].Constraints = <<>>
             THEN removeNode(g2, typeVars[i])
             ELSE g2
           remove(g1) ==
             IF g1.aborted THEN g1 ELSE NodeRemoveConstraint(g1, typeVars[i], c)
       IN removeConstraintLoop(collect(remove(lookupNode(g, typeVars[i]))),
                               c, typeVars, i + 1)
\* The loop of removeConstraint over referencedTypeVars[i..].
removeConstraintLoop(g, c, typeVars, i) ==
  IF g.aborted \/ i > Len(typeVars) THEN g
  ELSE LET remove(g1) ==
             IF g1.aborted THEN g1 ELSE NodeRemoveConstraint(g1, typeVars[i], c)
       IN removeConstraintLoop(remove(lookupNode(g, typeVars[i])), c, typeVars, i + 1)

\* removeConstraint taking an orphaned constraint off the list: the last
\* orphan moves into its place.
eraseOrphanPopOnly(orphans, known) == PopBack(orphans)
eraseOrphan(orphans, known) ==
  PopBack([orphans EXCEPT ![known] = orphans[Len(orphans)]])

\* ConstraintGraph::removeConstraint
removeConstraint(g, c) ==
  IF g.aborted THEN g
  ELSE
    LET referencedTypeVars == getTypeVariables(c)
        \* with the constraint out of the nodes of its type variables
        finish(g1) ==
          IF g1.aborted THEN g1
          ELSE IF referencedTypeVars # <<>>
          THEN RecordChange(g1, removedConstraint(c))
          ELSE LET known == IndexOf(g1.OrphanedConstraints, c)
               IN IF known = 0 THEN Abort(g1)
                  ELSE RecordChange(
                         [g1 EXCEPT !.OrphanedConstraints =
                            eraseOrphan(g1.OrphanedConstraints, known)],
                         removedConstraint(c))
    IN finish(removeConstraintLoop(g, c, referencedTypeVars, 1))

\* llvm::SaveAndRestore keeping the active scope it was given.
SaveAndRestoreNothing(g) == g
\* llvm::SaveAndRestore prevActiveScope(cg.ActiveScope, nullptr): the active
\* scope is null from here to the end of undo.
SaveAndRestore(g) == [g EXCEPT !.ActiveScope = 0]

\* The switch of ConstraintGraph::Change::undo.
\* The switch of Change::undo putting no removed constraint back.
undoSwitchKeepRemoved(g0, change) ==
  LET truncate(gl) ==
        IF gl.aborted THEN gl
        ELSE [gl EXCEPT !.GraphNode[change.TypeVar].EquivalenceClass =
                SubSeq(@, 1, change.PrevSize)]
  IN CASE change.Kind = "AddedTypeVariable" -> removeNode(g0, change.TypeVar)
       [] change.Kind = "AddedConstraint" ->
            removeConstraint(g0, change.TheConstraint)
       [] change.Kind = "RemovedConstraint" -> g0
       [] change.Kind = "ExtendedEquivalenceClass" ->
            truncate(lookupNode(g0, change.TypeVar))
       [] change.Kind = "BoundTypeVariable" ->
            unbindTypeVariable(g0, change.TypeVar, change.FixedType)
\* The switch of Change::undo.
undoSwitch(g0, change) ==
  LET truncate(gl) ==
        IF gl.aborted THEN gl
        ELSE [gl EXCEPT !.GraphNode[change.TypeVar].EquivalenceClass =
                SubSeq(@, 1, change.PrevSize)]
  IN CASE change.Kind = "AddedTypeVariable" -> removeNode(g0, change.TypeVar)
       [] change.Kind = "AddedConstraint" ->
            removeConstraint(g0, change.TheConstraint)
       [] change.Kind = "RemovedConstraint" ->
            addConstraint(g0, change.TheConstraint)
       [] change.Kind = "ExtendedEquivalenceClass" ->
            truncate(lookupNode(g0, change.TypeVar))
       [] change.Kind = "BoundTypeVariable" ->
            unbindTypeVariable(g0, change.TypeVar, change.FixedType)

\* ConstraintGraph::Change::undo: the active scope is null while it runs.
undo(g, change) ==
  LET prevActiveScope == g.ActiveScope
      restore(g1) == [g1 EXCEPT !.ActiveScope = prevActiveScope]
  IN restore(undoSwitch(SaveAndRestore(g), change))

\* The journal read from its old end.
front(changes) == changes[1]
\* CG.Changes.back()
back(changes) == changes[Len(changes)]

\* The loop condition of ~ConstraintGraphScope.
moreToUndoButOne(g, NumChanges) == Len(g.Changes) > NumChanges + 1
moreToUndo(g, NumChanges) == Len(g.Changes) > NumChanges

RECURSIVE undoChanges(_, _)
\* The loop of ~ConstraintGraphScope: undo and pop until NumChanges are left.
undoChanges(g, NumChanges) ==
  IF g.aborted \/ ~moreToUndo(g, NumChanges) THEN g
  ELSE LET pop(g1) ==
             IF g1.aborted THEN g1
             ELSE undoChanges([g1 EXCEPT !.Changes = PopBack(@)], NumChanges)
       IN pop(undo(g, back(g.Changes)))

\* ConstraintGraphScope::~ConstraintGraphScope
destroyScope(g, scope) ==
  IF Len(g.Changes) < scope.NumChanges THEN Abort(g)
  ELSE LET leave(g1) ==
             IF g1.aborted THEN g1
             ELSE [g1 EXCEPT !.ActiveScope = scope.ParentScope]
       IN leave(undoChanges(g, scope.NumChanges))

\* --------------------------------------------------------------------------
\* ConstraintGraph::gatherConstraints.  The walk is a record st of the world
\* g, the constraints vector being returned, the sets typeVars and
\* visitedConstraints, and evaluated, the constraints acceptConstraint was
\* called with, in order.  acceptConstraint is the set of constraints the
\* predicate accepts.

RECURSIVE visitAdjacentConstraints(_, _, _, _)
\* The inner loop without its look at visitedConstraints.
visitAdjacentConstraintsAgain(st, acceptConstraint, constraints, j) ==
  [st EXCEPT
     !.visitedConstraints = @ \cup Range(constraints),
     !.evaluated = @ \o constraints,
     !.constraints = @ \o SelectSeq(constraints, LAMBDA c : c \in acceptConstraint)]
\* The inner loop of addAdjacentConstraints over constraints[j..].
visitAdjacentConstraints(st, acceptConstraint, constraints, j) ==
  IF j > Len(constraints) THEN st
  ELSE
    LET constraint == constraints[j]
    IN IF constraint \in st.visitedConstraints
       THEN visitAdjacentConstraints(st, acceptConstraint, constraints, j + 1)
       ELSE visitAdjacentConstraints(
              [st EXCEPT
                 !.visitedConstraints = @ \cup {constraint},
                 !.evaluated = Append(@, constraint),
                 !.constraints = IF constraint \in acceptConstraint
                                 THEN Append(@, constraint) ELSE @],
              acceptConstraint, constraints, j + 1)

RECURSIVE visitAdjacentTypeVars(_, _, _, _)
\* The outer loop of addAdjacentConstraints over adjTypeVarsToVisit[i..].
visitAdjacentTypeVars(st, acceptConstraint, adjTypeVarsToVisit, i) ==
  IF st.g.aborted \/ i > Len(adjTypeVarsToVisit) THEN st
  ELSE
    LET adjTypeVarEquiv == adjTypeVarsToVisit[i]
        \* with the node of adjTypeVarEquiv looked up
        visit(g1) ==
          IF g1.aborted THEN [st EXCEPT !.g = g1]
          ELSE visitAdjacentConstraints(
                 [st EXCEPT !.g = g1, !.typeVars = @ \cup {adjTypeVarEquiv}],
                 acceptConstraint, g1.GraphNode[adjTypeVarEquiv].Constraints, 1)
    IN IF adjTypeVarEquiv \in st.typeVars
       THEN visitAdjacentTypeVars(st, acceptConstraint, adjTypeVarsToVisit, i + 1)
       ELSE visitAdjacentTypeVars(visit(lookupNode(st.g, adjTypeVarEquiv)),
                                  acceptConstraint, adjTypeVarsToVisit, i + 1)

\* The lambda addAdjacentConstraints of gatherConstraints.
addAdjacentConstraints(st, acceptConstraint, adjTypeVar) ==
  IF st.g.aborted THEN st
  ELSE
    LET rep == getRepresentative(st.g, adjTypeVar)
        \* with the class of the representative's node read
        visit(g2) ==
          IF g2.aborted THEN [st EXCEPT !.g = g2]
          ELSE visitAdjacentTypeVars([st EXCEPT !.g = g2], acceptConstraint,
                                     g2.GraphNode[rep].EquivalenceClass, 1)
        read(g1) == IF g1.aborted THEN g1 ELSE getEquivalenceClass(g1, rep)
    IN visit(read(lookupNode(st.g, rep)))

RECURSIVE addAdjacentConstraintsOfEach(_, _, _, _)
\* for (auto adjTypeVar : adjTypeVars[i..]) addAdjacentConstraints(adjTypeVar);
addAdjacentConstraintsOfEach(st, acceptConstraint, adjTypeVars, i) ==
  IF i > Len(adjTypeVars) THEN st
  ELSE addAdjacentConstraintsOfEach(
         addAdjacentConstraints(st, acceptConstraint, adjTypeVars[i]),
         acceptConstraint, adjTypeVars, i + 1)

RECURSIVE gatherFromConstraints(_, _, _, _, _)
\* The loop taking the constraints of the node and never looking at the
\* type variables they mention.
gatherOwnConstraints(st, kind, acceptConstraint, constraints, j) ==
  LET visited == Range(constraints) \cap st.visitedConstraints
      fresh == SelectSeq(constraints, LAMBDA c : c \notin visited)
  IN [st EXCEPT
        !.visitedConstraints = @ \cup Range(constraints),
        !.evaluated = @ \o fresh,
        !.constraints = @ \o SelectSeq(fresh, LAMBDA c : c \in acceptConstraint)]
\* The loop of gatherConstraints over the constraints[j..] of one node.
gatherFromConstraints(st, kind, acceptConstraint, constraints, j) ==
  IF st.g.aborted \/ j > Len(constraints) THEN st
  ELSE
    LET constraint == constraints[j]
        own == IF constraint \in st.visitedConstraints THEN st
               ELSE [st EXCEPT
                       !.visitedConstraints = @ \cup {constraint},
                       !.evaluated = Append(@, constraint),
                       !.constraints = IF constraint \in acceptConstraint
                                       THEN Append(@, constraint) ELSE @]
    IN gatherFromConstraints(
         IF kind = "AllMentions"
         THEN addAdjacentConstraintsOfEach(own, acceptConstraint,
                                           getTypeVariables(constraint), 1)
         ELSE own,
         kind, acceptConstraint, constraints, j + 1)

RECURSIVE gatherFromClass(_, _, _, _, _)
\* The loop over the class never looking at the fixed bindings of a node.
gatherFromClassOnly(st, kind, acceptConstraint, equivClass, i) ==
  IF st.g.aborted \/ i > Len(equivClass) THEN st
  ELSE
    LET typeVar == equivClass[i]
        gather(g1) ==
          IF g1.aborted THEN [st EXCEPT !.g = g1]
          ELSE gatherFromConstraints(
                 [st EXCEPT !.g = g1], kind, acceptConstraint,
                 g1.GraphNode[typeVar].Constraints, 1)
    IN gatherFromClass(gather(lookupNode(st.g, typeVar)),
                       kind, acceptConstraint, equivClass, i + 1)
\* The loop of gatherConstraints over equivClass[i..].
gatherFromClass(st, kind, acceptConstraint, equivClass, i) ==
  IF st.g.aborted \/ i > Len(equivClass) THEN st
  ELSE
    LET typeVar == equivClass[i]
        \* with the constraints of the node gathered: its fixed bindings
        bindings(gathered) ==
          IF gathered.g.aborted THEN gathered
          ELSE addAdjacentConstraintsOfEach(
                 gathered, acceptConstraint,
                 gathered.g.GraphNode[typeVar].FixedBindings, 1)
        \* with the node of typeVar looked up
        gather(g1) ==
          IF g1.aborted THEN [st EXCEPT !.g = g1]
          ELSE bindings(gatherFromConstraints(
                          [st EXCEPT !.g = g1], kind, acceptConstraint,
                          g1.GraphNode[typeVar].Constraints, 1))
    IN gatherFromClass(gather(lookupNode(st.g, typeVar)),
                       kind, acceptConstraint, equivClass, i + 1)

\* ConstraintGraph::gatherConstraints
gatherConstraints(g, typeVar, kind, acceptConstraint) ==
  LET rep == getRepresentative(g, typeVar)
      start(g0) ==
        [g |-> g0, constraints |-> <<>>, typeVars |-> {},
         visitedConstraints |-> {}, evaluated |-> <<>>]
      \* with the class of the representative's node read
      gather(g2) ==
        IF g2.aborted THEN start(g2)
        ELSE gatherFromClass(start(g2), kind, acceptConstraint,
                             g2.GraphNode[rep].EquivalenceClass, 1)
      read(g1) == IF g1.aborted THEN g1 ELSE getEquivalenceClass(g1, rep)
  IN gather(read(lookupNode(g, rep)))

\* --------------------------------------------------------------------------
\* Connected components (class ConnectedComponents).  The maps of the source
\* (representatives, oneWayDigraph, componentIdxMap, subcomponentIdxs) are
\* functions whose domain is the set of keys present.

\* map[key] = value
Put(map, key, value) ==
  [k \in DOMAIN map \cup {key} |-> IF k = key THEN value ELSE map[k]]

isOneWay(c) == getKind(c) \in {"OneWayBind", "OneWayBindParam"}

RECURSIVE findRepresentative(_, _)
\* ConnectedComponents::findRepresentative.  Path compression rewrites
\* records without changing any answer and is left out.
findRepresentative(representatives, typeVar) ==
  IF typeVar \notin DOMAIN representatives THEN typeVar
  ELSE findRepresentative(representatives, representatives[typeVar])

\* ConnectedComponents::unionSets: the representative with the higher ID is
\* reparented onto the other.
unionSets(representatives, typeVar1, typeVar2) ==
  LET rep1 == findRepresentative(representatives, typeVar1)
      rep2 == findRepresentative(representatives, typeVar2)
  IN IF rep1 = rep2 THEN representatives
     ELSE IF rep1 < rep2 THEN Put(representatives, rep2, rep1)
     ELSE Put(representatives, rep1, rep2)

RECURSIVE unionSetsWithEach(_, _, _, _)
\* for (auto other : others[i..]) unionSets(typeVar, other);
unionSetsWithEach(representatives, typeVar, others, i) ==
  IF i > Len(others) THEN representatives
  ELSE unionSetsWithEach(unionSets(representatives, typeVar, others[i]),
                         typeVar, others, i + 1)

\* ConnectedComponents::unionSetsViaConstraint
unionSetsViaConstraint(representatives, c) ==
  LET typeVars == getTypeVariables(c)
  IN IF Len(typeVars) < 2 THEN representatives
     ELSE unionSetsWithEach(representatives, typeVars[1], typeVars, 2)

\* The state of a ConnectedComponents object under construction over graph g.
NewConnectedComponents(g) ==
  [g |-> g, representatives |-> <<>>, oneWayDigraph |-> <<>>,
   oneWayConstraints |-> <<>>, visitedConstraints |-> {}]

RECURSIVE visitConstraints(_, _, _)
\* The loop of connectedComponents over the constraints[j..] of one node.
visitConstraints(cc, constraints, j) ==
  IF j > Len(constraints) THEN cc
  ELSE
    LET constraint == constraints[j]
    IN IF constraint \in cc.visitedConstraints
       THEN visitConstraints(cc, constraints, j + 1)
       ELSE
         LET seen == [cc EXCEPT !.visitedConstraints = @ \cup {constraint}]
         IN IF isOneWay(constraint)
            THEN visitConstraints(
                   [seen EXCEPT !.oneWayConstraints = Append(@, constraint)],
                   constraints, j + 1)
            ELSE visitConstraints(
                   [seen EXCEPT !.representatives =
                      unionSetsViaConstraint(@, constraint)],
                   constraints, j + 1)

RECURSIVE connectedComponents(_, _, _)
\* ConnectedComponents::connectedComponents, from typeVars[i] on.
connectedComponents(cc, typeVars, i) ==
  IF cc.g.aborted \/ i > Len(typeVars) THEN cc
  ELSE
    LET typeVar == typeVars[i]
        rep == getRepresentative(cc.g, typeVar)
        \* with the node of typeVar looked up: its fixed bindings and
        \* constraints
        visitNode(reps1, g3) ==
          IF g3.aborted THEN [cc EXCEPT !.g = g3]
          ELSE visitConstraints(
                 [cc EXCEPT !.g = g3,
                            !.representatives =
                               unionSetsWithEach(
                                 reps1, typeVar,
                                 g3.GraphNode[typeVar].FixedBindings, 1)],
                 g3.GraphNode[typeVar].Constraints, 1)
        \* with the class of the representative's node read
        visitClass(g2) ==
          IF g2.aborted THEN [cc EXCEPT !.g = g2]
          ELSE visitNode(
                 unionSetsWithEach(cc.representatives, typeVar,
                                   g2.GraphNode[rep].EquivalenceClass, 1),
                 lookupNode(g2, typeVar))
        \* with the representative's node looked up
        readClass(g1) == IF g1.aborted THEN g1 ELSE getEquivalenceClass(g1, rep)
    IN connectedComponents(visitClass(readClass(lookupNode(cc.g, rep))),
                           typeVars, i + 1)

\* ConnectedComponents::insertIfUnique
insertIfUnique(vector, typeVar) ==
  IF Contains(vector, typeVar) THEN vector ELSE Append(vector, typeVar)

RawOneWayComponent ==
  [typeVars |-> <<>>, outAdjacencies |-> <<>>, inAdjacencies |-> <<>>]

\* oneWayDigraph[typeVar], which makes an empty entry when there is none.
digraphEntry(oneWayDigraph, typeVar) ==
  IF typeVar \in DOMAIN oneWayDigraph THEN oneWayDigraph[typeVar]
  ELSE RawOneWayComponent

\* The lambda of buildOneWayConstraintGraph: the representatives of the
\* type variables of a type, uniqued in order of first occurrence.
getRepresentativesInType(representatives, type) ==
  Unique([i \in 1..Len(type.vars) |->
            findRepresentative(representatives, type.vars[i])])

\* One edge of the digraph, from the right-hand side's representative to
\* the left-hand side's.
addOneWayEdge(oneWayDigraph, lhsTypeRep, rhsTypeRep) ==
  LET d1 == Put(oneWayDigraph, rhsTypeRep,
                [digraphEntry(oneWayDigraph, rhsTypeRep) EXCEPT
                   !.outAdjacencies = insertIfUnique(@, lhsTypeRep)])
  IN Put(d1, lhsTypeRep,
         [digraphEntry(d1, lhsTypeRep) EXCEPT
            !.inAdjacencies = insertIfUnique(@, rhsTypeRep)])

RECURSIVE addOneWayEdges(_, _, _, _)
\* The two nested loops over lhsTypeReps and rhsTypeReps, from the k-th
\* pair on (the left-hand side varies slowest).
addOneWayEdges(oneWayDigraph, lhsTypeReps, rhsTypeReps, k) ==
  IF k > Len(lhsTypeReps) * Len(rhsTypeReps) THEN oneWayDigraph
  ELSE addOneWayEdges(
         addOneWayEdge(oneWayDigraph,
                       lhsTypeReps[((k - 1) \div Len(rhsTypeReps)) + 1],
                       rhsTypeReps[((k - 1) % Len(rhsTypeReps)) + 1]),
         lhsTypeReps, rhsTypeReps, k + 1)

RECURSIVE addOneWayConstraints(_, _, _, _)
\* The first loop of buildOneWayConstraintGraph, from oneWayConstraints[i] on.
addOneWayConstraints(oneWayDigraph, representatives, oneWayConstraints, i) ==
  IF i > Len(oneWayConstraints) THEN oneWayDigraph
  ELSE
    LET constraint == oneWayConstraints[i]
        lhsTypeReps == getRepresentativesInType(
                         representatives, getFirstType(constraint))
        rhsTypeReps == getRepresentativesInType(
                         representatives, getSecondType(constraint))
    IN addOneWayConstraints(
         addOneWayEdges(oneWayDigraph, lhsTypeReps, rhsTypeReps, 1),
         representatives, oneWayConstraints, i + 1)

RECURSIVE bucketTypeVars(_, _, _, _)
\* The second loop of buildOneWayConstraintGraph, from typeVars[i] on.
bucketTypeVars(oneWayDigraph, representatives, typeVars, i) ==
  IF i > Len(typeVars) THEN oneWayDigraph
  ELSE
    LET rep == findRepresentative(representatives, typeVars[i])
    IN IF rep \notin DOMAIN oneWayDigraph
       THEN bucketTypeVars(oneWayDigraph, representatives, typeVars, i + 1)
       ELSE bucketTypeVars(
              [oneWayDigraph EXCEPT ![rep].typeVars = Append(@, typeVars[i])],
              representatives, typeVars, i + 1)

\* ConnectedComponents::buildOneWayConstraintGraph
buildOneWayConstraintGraph(cc, typeVars) ==
  [cc EXCEPT !.oneWayDigraph =
     bucketTypeVars(
       addOneWayConstraints(<<>>, cc.representatives, cc.oneWayConstraints, 1),
       cc.representatives, typeVars, 1)]

RECURSIVE unionOneWayConstraints(_, _, _)
\* The last loop of the constructor without its body.
skipOneWayConstraints(representatives, oneWayConstraints, i) == representatives
\* The last loop of the constructor: the sets are joined along the one-way
\* constraints, oneWayConstraints[i] on.
unionOneWayConstraints(representatives, oneWayConstraints, i) ==
  IF i > Len(oneWayConstraints) THEN representatives
  ELSE unionOneWayConstraints(
         unionSetsViaConstraint(representatives, oneWayConstraints[i]),
         oneWayConstraints, i + 1)

\* ConnectedComponents::ConnectedComponents
ConnectedComponents(g, typeVars) ==
  LET finish(cc) ==
        IF cc.g.aborted \/ cc.oneWayConstraints = <<>> THEN cc
        ELSE [buildOneWayConstraintGraph(cc, typeVars) EXCEPT
                !.representatives =
                   unionOneWayConstraints(@, cc.oneWayConstraints, 1)]
  IN finish(connectedComponents(NewConnectedComponents(g), typeVars, 1))

\* A Component as it is first pushed.
NewComponent == [typeVars |-> <<>>, constraints |-> <<>>, oneWayComponents |-> <<>>]

RECURSIVE addNewConstraints(_, _, _)
\* The constraints of a node added to a component whether or not a
\* component has them.
addAllConstraints(st, constraints, j) ==
  [constraints |-> st.constraints \o SubSeq(constraints, j, Len(constraints)),
   knownConstraints |-> st.knownConstraints \cup Range(constraints)]
\* The constraints[j..] of a node, added to a component unless some
\* component has them already.  st holds constraints and knownConstraints.
addNewConstraints(st, constraints, j) ==
  IF j > Len(constraints) THEN st
  ELSE IF constraints[j] \in st.knownConstraints
  THEN addNewConstraints(st, constraints, j + 1)
  ELSE addNewConstraints(
         [constraints |-> Append(st.constraints, constraints[j]),
          knownConstraints |-> st.knownConstraints \cup {constraints[j]}],
         constraints, j + 1)

RECURSIVE assignComponents(_, _, _, _, _)
\* The second loop of getComponents, from typeVars[i] on.  st holds
\* components, componentIdxMap and knownConstraints.
assignComponents(cc, componentHasUnboundTypeVar, st, typeVars, i) ==
  IF i > Len(typeVars) THEN st
  ELSE
    LET typeVar == typeVars[i]
        rep == findRepresentative(cc.representatives, typeVar)
        \* with the component allocated: typeVar and its constraints join it
        record(components, componentIdxMap) ==
          LET componentIdx == componentIdxMap[rep]
              join(added) ==
                [components |->
                   [components EXCEPT
                      ![componentIdx + 1].typeVars = Append(@, typeVar),
                      ![componentIdx + 1].constraints = added.constraints],
                 componentIdxMap |-> componentIdxMap,
                 knownConstraints |-> added.knownConstraints]
          IN join(addNewConstraints(
                    [constraints |-> components[componentIdx + 1].constraints,
                     knownConstraints |-> st.knownConstraints],
                    cc.g.GraphNode[typeVar].Constraints, 1))
    IN IF rep \notin componentHasUnboundTypeVar
       THEN assignComponents(cc, componentHasUnboundTypeVar, st, typeVars, i + 1)
       ELSE assignComponents(
              cc, componentHasUnboundTypeVar,
              IF rep \in DOMAIN st.componentIdxMap
              THEN record(st.components, st.componentIdxMap)
              ELSE record(Append(st.components, NewComponent),
                          Put(st.componentIdxMap, rep,
                              Cardinality(DOMAIN st.componentIdxMap))),
              typeVars, i + 1)

RECURSIVE postorderDepthFirstSearchRec(_, _, _)
RECURSIVE searchAdjacencies(_, _, _, _)
\* ConnectedComponents::postorderDepthFirstSearchRec.  getAdjacencies is a
\* function from type variables to adjacency lists; st holds the visited
\* set and postorder, the type variables in the order postVisit is called.
postorderDepthFirstSearchRec(typeVar, getAdjacencies, st) ==
  IF typeVar \in st.visited THEN st
  ELSE LET entered == [st EXCEPT !.visited = @ \cup {typeVar}]
           searched == searchAdjacencies(getAdjacencies[typeVar], 1,
                                         getAdjacencies, entered)
       IN [searched EXCEPT !.postorder = Append(@, typeVar)]

\* for (auto adj : adjacencies[i..]) postorderDepthFirstSearchRec(adj, ...)
searchAdjacencies(adjacencies, i, getAdjacencies, st) ==
  IF i > Len(adjacencies) THEN st
  ELSE searchAdjacencies(
         adjacencies, i + 1, getAdjacencies,
         postorderDepthFirstSearchRec(adjacencies[i], getAdjacencies, st))

\* ConnectedComponents::postorderDepthFirstSearch: one visited set for the
\* searches from every type variable of typeVars.
postorderDepthFirstSearch(typeVars, getAdjacencies) ==
  searchAdjacencies(typeVars, 1, getAdjacencies,
                    [visited |-> {}, postorder |-> <<>>]).postorder

RECURSIVE recordDependencies(_, _, _, _, _)
\* The postVisit hook of the backward search from typeVar, called on
\* postorder[i..].  owc is the one-way component being filled.  A type
\* variable without a subcomponent index fails the assertion; a build
\* without assertions reads the index through the end iterator, and what it
\* reads is whatever ub says: zero, or some large number.
recordDependencies(owc, typeVar, subcomponentIdxs, postorder, ub) ==
  IF owc.aborted \/ postorder = <<>> THEN owc
  ELSE
    LET dependsOn == Head(postorder)
        rest == Tail(postorder)
    IN IF dependsOn = typeVar
       THEN recordDependencies(owc, typeVar, subcomponentIdxs, rest, ub)
       ELSE IF dependsOn \in DOMAIN subcomponentIdxs
       THEN recordDependencies(
              [owc EXCEPT !.dependsOn = Append(@, subcomponentIdxs[dependsOn])],
              typeVar, subcomponentIdxs, rest, ub)
       ELSE IF ub = "abort" THEN [owc EXCEPT !.aborted = TRUE]
       ELSE recordDependencies(
              [owc EXCEPT !.dependsOn =
                 Append(@, IF ub = "empty" THEN 0 ELSE 2147483647)],
              typeVar, subcomponentIdxs, rest, ub)

RECURSIVE formOneWayComponents(_, _, _, _)
\* The loop over reversed(dependencyOrder) for one component:
\* dependencyOrder[1..n] is still to be done, last element first.  st holds
\* oneWayComponents, subcomponentIdxs and aborted.
formOneWayComponents(cc, st, dependencyOrder, n) ==
  IF st.aborted \/ n = 0 THEN st
  ELSE
    LET typeVar == dependencyOrder[n]
        oneWayDigraph == cc.oneWayDigraph
        inAdjacencies ==
          [tv \in DOMAIN cc.g.GraphNode |->
             IF tv \in DOMAIN oneWayDigraph
             THEN oneWayDigraph[tv].inAdjacencies ELSE <<>>]
        \* with the index of typeVar recorded
        form(subcomponentIdxs) ==
          LET push(owc) ==
                [oneWayComponents |->
                   Append(st.oneWayComponents,
                          [typeVars |-> owc.typeVars, dependsOn |-> owc.dependsOn]),
                 subcomponentIdxs |-> subcomponentIdxs,
                 aborted |-> owc.aborted]
          IN push(recordDependencies(
                    [typeVars |-> IF typeVar \in DOMAIN oneWayDigraph
                                  THEN oneWayDigraph[typeVar].typeVars
                                  ELSE <<typeVar>>,
                     dependsOn |-> <<>>, aborted |-> FALSE],
                    typeVar, subcomponentIdxs,
                    postorderDepthFirstSearchRec(
                      typeVar, inAdjacencies,
                      [visited |-> {}, postorder |-> <<>>]).postorder,
                    cc.g.ub))
    IN IF typeVar \in DOMAIN st.subcomponentIdxs THEN [st EXCEPT !.aborted = TRUE]
       ELSE formOneWayComponents(
              cc,
              form(Put(st.subcomponentIdxs, typeVar, Len(st.oneWayComponents))),
              dependencyOrder, n - 1)

RECURSIVE populateComponents(_, _, _, _, _)
\* The loop of populateOneWayComponentDependencies over the components,
\* from index componentIdx (0-based) on.  st holds components and aborted.
populateComponents(cc, componentIdxMap, postorder, st, componentIdx) ==
  IF st.aborted \/ componentIdx >= Len(st.components) THEN st
  ELSE
    LET recorded(typeVar) ==
          /\ typeVar \in DOMAIN cc.oneWayDigraph
          /\ findRepresentative(cc.representatives, typeVar)
               \in DOMAIN componentIdxMap
          /\ componentIdxMap[findRepresentative(cc.representatives, typeVar)]
               = componentIdx
        form(dependencyOrder) ==
          formOneWayComponents(
            cc,
            [oneWayComponents |->
               st.components[componentIdx + 1].oneWayComponents,
             subcomponentIdxs |-> <<>>, aborted |-> FALSE],
            dependencyOrder, Len(dependencyOrder))
        store(formed) ==
          [components |->
             [st.components EXCEPT ![componentIdx + 1].oneWayComponents =
                formed.oneWayComponents],
           aborted |-> formed.aborted]
    IN populateComponents(
         cc, componentIdxMap, postorder,
         store(form(SelectSeq(postorder, recorded))),
         componentIdx + 1)

\* ConnectedComponents::populateOneWayComponentDependencies.  The forward
\* search calls postVisit in postorder; its hook files each type variable
\* under its component, so dependencyOrders[i] is the postorder filtered.
populateOneWayComponentDependencies(cc, typeVars, componentIdxMap, components) ==
  LET outAdjacencies ==
        [tv \in DOMAIN cc.g.GraphNode |->
           IF findRepresentative(cc.representatives, tv) \notin DOMAIN componentIdxMap
           THEN <<>>
           ELSE IF tv \notin DOMAIN cc.oneWayDigraph THEN <<>>
           ELSE cc.oneWayDigraph[tv].outAdjacencies]
      postorder == postorderDepthFirstSearch(typeVars, outAdjacencies)
  IN populateComponents(cc, componentIdxMap, postorder,
                        [components |-> components, aborted |-> FALSE], 0)

\* The first loop of getComponents never skipping a type variable.
componentHasAnyTypeVar(cc, typeVars) ==
  {findRepresentative(cc.representatives, typeVar) : typeVar \in Range(typeVars)}
\* The first loop of getComponents: the representatives of the type
\* variables without a fixed type.
componentHasUnboundTypeVar(cc, typeVars) ==
  {findRepresentative(cc.representatives, typeVar) :
     typeVar \in {tv \in Range(typeVars) : getFixedType(cc.g, tv) = 0}}

\* ConnectedComponents::getComponents
getComponents(cc, typeVars) ==
  LET hasUnboundTypeVar == componentHasUnboundTypeVar(cc, typeVars)
      populate(assigned) ==
        IF DOMAIN cc.oneWayDigraph # {}
        THEN populateOneWayComponentDependencies(
               cc, typeVars, assigned.componentIdxMap, assigned.components)
        ELSE [components |-> assigned.components, aborted |-> FALSE]
  IN populate(assignComponents(
                cc, hasUnboundTypeVar,
                [components |-> <<>>, componentIdxMap |-> <<>>,
                 knownConstraints |-> {}],
                typeVars, 1))

\* ConstraintGraph::computeConnectedComponents: the graph after the call
\* (the node lookups create nodes) and the components returned.
computeConnectedComponents(g, typeVars) ==
  LET return(cc, got) ==
        IF got.aborted THEN [g |-> Abort(cc.g), components |-> <<>>]
        ELSE [g |-> cc.g, components |-> got.components]
      get(cc) ==
        IF cc.g.aborted THEN [g |-> cc.g, components |-> <<>>]
        ELSE return(cc, getComponents(cc, typeVars))
  IN get(ConnectedComponents(g, typeVars))

\* --------------------------------------------------------------------------
\* The constraint system driving the graph.

\* The graph part of a world, written back to the state.
SetGraph(g) ==
  /\ TypeVariables' = g.TypeVariables
  /\ GraphNode' = g.GraphNode
  /\ GraphIndex' = g.GraphIndex
  /\ OrphanedConstraints' = g.OrphanedConstraints
  /\ Changes' = g.Changes
  /\ ActiveScope' = g.ActiveScope
  /\ aborted' = g.aborted

\* What a scope finds when it opens, kept to compare with what it leaves.
GraphSnapshot ==
  [TypeVariables |-> TypeVariables, GraphNode |-> GraphNode,
   OrphanedConstraints |-> OrphanedConstraints]

\* The union-find after merging the classes of two representatives: the one
\* with the smaller ID represents both.
MergedRepresentative(rep, a, b) ==
  LET winner == IF a < b THEN a ELSE b
      loser == IF a < b THEN b ELSE a
  IN [tv \in DOMAIN rep |-> IF rep[tv] = loser THEN winner ELSE rep[tv]]

\* CS.mergeEquivalenceClasses(typeVar1, typeVar2, updateWorkList = false): the
\* external merge, then CG.mergeNodes.
mergeEquivalenceClasses(g, typeVar1, typeVar2) ==
  mergeNodes([g EXCEPT !.Representative = MergedRepresentative(@, typeVar1, typeVar2)],
             typeVar1, typeVar2)

\* CS.assignFixedType(typeVar, type): the external binding, then
\* CG.bindTypeVariable.
assignFixedType(g, typeVar, fixed) ==
  bindTypeVariable([g EXCEPT !.FixedType[typeVar] = fixed], typeVar, fixed)

\* A fresh constraint system and graph over the type variables tvs.
InitOver(tvs) ==
  /\ TypeVariables = <<>>
  /\ GraphNode = [tv \in tvs |-> NullNode]
  /\ GraphIndex = [tv \in tvs |-> 0]
  /\ OrphanedConstraints = <<>>
  /\ Changes = <<>>
  /\ ActiveScope = 0
  /\ scopes = <<>>
  /\ Representative = [tv \in tvs |-> tv]
  /\ FixedType = [tv \in tvs |-> 0]
  /\ InactiveConstraints = {}
  /\ ActiveConstraints = {}
  /\ aborted = FALSE
  /\ ops = 0
  /\ lastScope = NoScope
  /\ result = NoResult

\* A constraint system outside the solver whose type variables have no
\* capability and no potential bindings.
PlainSolver(tvs) ==
  /\ solverState = NoSolverState
  /\ Options = [tv \in tvs |-> [canBindToLValue |-> FALSE, canBindToInOut |-> FALSE]]
  /\ PotentialBindings = [tv \in tvs |-> NoBindings]

Init == InitOver(TypeVars) /\ PlainSolver(TypeVars)

\* The solver touches a type variable: CG[typeVar].
LookupNode(tv) ==
  /\ ~aborted
  /\ ops < MaxOps
  /\ ops' = ops + 1
  /\ lastScope' = NoScope
  /\ result' = NoResult
  /\ GraphNode[tv] = NullNode
  /\ LET return(g) == Len(g.Changes) <= MaxChanges /\ SetGraph(g)
     IN return(lookupNode(World("abort"), tv))
  /\ UNCHANGED << scopes, Representative, FixedType, InactiveConstraints >>
  /\ UNCHANGED solverVars

\* ConstraintSystem::addUnsolvedConstraint: the constraint joins the list and
\* the graph.
AddConstraint(c) ==
  /\ ~aborted
  /\ ops < MaxOps
  /\ ops' = ops + 1
  /\ lastScope' = NoScope
  /\ result' = NoResult
  /\ c \notin InactiveConstraints
  /\ LET return(g) == Len(g.Changes) <= MaxChanges /\ SetGraph(g)
     IN return(addConstraint(World("abort"), c))
  /\ InactiveConstraints' = InactiveConstraints \cup {c}
  /\ UNCHANGED << scopes, Representative, FixedType >>
  /\ UNCHANGED solverVars

\* ConstraintSystem::removeInactiveConstraint followed by CG.removeConstraint.
RemoveConstraint(c) ==
  /\ ~aborted
  /\ ops < MaxOps
  /\ ops' = ops + 1
  /\ lastScope' = NoScope
  /\ result' = NoResult
  /\ c \in InactiveConstraints
  /\ LET return(g) == Len(g.Changes) <= MaxChanges /\ SetGraph(g)
     IN return(removeConstraint(World("abort"), c))
  /\ InactiveConstraints' = InactiveConstraints \ {c}
  /\ UNCHANGED << scopes, Representative, FixedType >>
  /\ UNCHANGED solverVars

\* The solver merges the classes of two unbound representatives.
MergeEquivalenceClasses(a, b) ==
  /\ ~aborted
  /\ ops < MaxOps
  /\ ops' = ops + 1
  /\ lastScope' = NoScope
  /\ a # b
  /\ Representative[a] = a /\ Representative[b] = b
  /\ FixedType[a] = 0 /\ FixedType[b] = 0
  /\ LET return(g) ==
           /\ Len(g.Changes) <= MaxChanges
           /\ SetGraph(g)
           /\ Representative' = g.Representative
           /\ result' = IF g.aborted THEN NoResult
                        ELSE [Kind |-> "merged",
                              typeVarRep |-> g.Representative[a],
                              typeVarNonRep |->
                                IF g.Representative[a] = a THEN b ELSE a,
                              before |-> GraphNode[g.Representative[a]]]
     IN return(mergeEquivalenceClasses(World("abort"), a, b))
  /\ UNCHANGED << scopes, FixedType, InactiveConstraints >>
  /\ UNCHANGED solverVars

\* The solver binds an unbound representative to a fixed type.
AssignFixedType(tv, fixed) ==
  /\ ~aborted
  /\ ops < MaxOps
  /\ ops' = ops + 1
  /\ lastScope' = NoScope
  /\ result' = NoResult
  /\ Representative[tv] = tv
  /\ FixedType[tv] = 0
  /\ LET return(g) ==
           /\ Len(g.Changes) <= MaxChanges
           /\ SetGraph(g)
           /\ FixedType' = g.FixedType
     IN return(assignFixedType(World("abort"), tv, fixed))
  /\ UNCHANGED << scopes, Representative, InactiveConstraints >>
  /\ UNCHANGED solverVars

\* ConstraintGraphScope::ConstraintGraphScope, inside a solver scope that
\* saves the constraint system's own state.
OpenScope ==
  /\ ~aborted
  /\ Len(scopes) < MaxScopes
  /\ scopes' = Append(scopes,
       [ParentScope |-> ActiveScope, NumChanges |-> Len(Changes),
        Representative |-> Representative, FixedType |-> FixedType,
        InactiveConstraints |-> InactiveConstraints,
        opened |-> GraphSnapshot])
  /\ ActiveScope' = Len(scopes) + 1
  /\ UNCHANGED << TypeVariables, GraphNode, GraphIndex, OrphanedConstraints,
                  Changes, Representative, FixedType, InactiveConstraints,
                  aborted, ops >>
  /\ UNCHANGED solverVars
  /\ lastScope' = NoScope
  /\ result' = NoResult

\* ConstraintGraphScope::~ConstraintGraphScope, inside the solver scope that
\* restores the constraint system's own state.
CloseScope ==
  /\ ~aborted
  /\ scopes # <<>>
  /\ \E ub \in UBOutcomes :
       LET scope == scopes[Len(scopes)]
       IN /\ SetGraph(destroyScope(World(ub), scope))
          /\ Representative' = scope.Representative
          /\ FixedType' = scope.FixedType
          /\ InactiveConstraints' = scope.InactiveConstraints
  /\ scopes' = PopBack(scopes)
  /\ lastScope' = scopes[Len(scopes)]
  /\ result' = NoResult
  /\ UNCHANGED ops
  /\ UNCHANGED solverVars

Next ==
  \/ \E tv \in TypeVars : LookupNode(tv)
  \/ \E c \in MutationConstraints : AddConstraint(c)
  \/ \E c \in MutationConstraints : RemoveConstraint(c)
  \/ \E m \in Merges : MergeEquivalenceClasses(m[1], m[2])
  \/ \E b \in Bindings : AssignFixedType(b[1], b[2])
  \/ OpenScope
  \/ CloseScope

Spec == Init /\ [][Next]_vars

\* ------------------------------------------------------ the misuse universe
\* A caller that breaks the contract: it adds a constraint that is already
\* registered, or removes one that is not.  result keeps the call.
AddConstraintAgain(c) ==
  /\ ~aborted
  /\ ops < MaxOps
  /\ ops' = ops + 1
  /\ lastScope' = NoScope
  /\ result' = [Kind |-> "violation", call |-> "addConstraint", constraint |-> c]
  /\ c \in InactiveConstraints
  /\ LET return(g) == Len(g.Changes) <= MaxChanges /\ SetGraph(g)
     IN return(addConstraint(World("abort"), c))
  /\ UNCHANGED << scopes, Representative, FixedType, InactiveConstraints >>
  /\ UNCHANGED solverVars

RemoveUnknownConstraint(c) ==
  /\ ~aborted
  /\ ops < MaxOps
  /\ ops' = ops + 1
  /\ lastScope' = NoScope
  /\ result' = [Kind |-> "violation", call |-> "removeConstraint", constraint |-> c]
  /\ c \notin InactiveConstraints
  /\ LET return(g) == Len(g.Changes) <= MaxChanges /\ SetGraph(g)
     IN return(removeConstraint(World("abort"), c))
  /\ UNCHANGED << scopes, Representative, FixedType, InactiveConstraints >>
  /\ UNCHANGED solverVars

NextMisuse ==
  \/ \E tv \in TypeVars : LookupNode(tv)
  \/ \E c \in MutationConstraints : AddConstraint(c)
  \/ \E c \in MutationConstraints : RemoveConstraint(c)
  \/ OpenScope
  \/ CloseScope
  \/ \E c \in MutationConstraints : AddConstraintAgain(c)
  \/ \E c \in MutationConstraints : RemoveUnknownConstraint(c)

SpecMisuse == Init /\ [][NextMisuse]_vars

\* ------------------------------------------------------ the lookup universe
\* The graph comes to a constraint system that has merged and bound type
\* variables the graph has no node for yet, which is what lookupNode finds
\* when mergeNodes or bindTypeVariable send it for a node in the middle of
\* their work.  The union-finds and the single bindings it may find:
LookupRepresentatives ==
  { [tv \in TypeVars |-> tv],
    MergedRepresentative([tv \in TypeVars |-> tv], 0, 1),
    MergedRepresentative([tv \in TypeVars |-> tv], 1, 2),
    MergedRepresentative(MergedRepresentative([tv \in TypeVars |-> tv], 0, 1), 0, 2) }

LookupFixedTypes ==
  { [tv \in TypeVars |-> 0] } \cup
  { [tv \in TypeVars |-> IF tv = b[1] THEN b[2] ELSE 0] : b \in Bindings }

InitLookup ==
  /\ TypeVariables = <<>>
  /\ GraphNode = [tv \in TypeVars |-> NullNode]
  /\ GraphIndex = [tv \in TypeVars |-> 0]
  /\ OrphanedConstraints = <<>>
  /\ Changes = <<>>
  /\ ActiveScope = 0
  /\ scopes = <<>>
  /\ Representative \in LookupRepresentatives
  /\ FixedType \in {f \in LookupFixedTypes :
                      \A tv \in TypeVars : f[tv] # 0 => Representative[tv] = tv}
  /\ InactiveConstraints = {}
  /\ ActiveConstraints = {}
  /\ aborted = FALSE
  /\ ops = 0
  /\ lastScope = NoScope
  /\ result = NoResult
  /\ PlainSolver(TypeVars)

\* The solver asks for the node of a type variable, which may have one
\* already: CG[typeVar].  result keeps the question and the index returned.
Lookup(tv) ==
  /\ ~aborted
  /\ ops < MaxOps
  /\ ops' = ops + 1
  /\ lastScope' = NoScope
  /\ LET return(g) ==
           /\ Len(g.Changes) <= MaxChanges
           /\ SetGraph(g)
           /\ result' = IF g.aborted THEN NoResult
                        ELSE [Kind |-> "lookedUp", typeVar |-> tv,
                              created |-> (GraphNode[tv] = NullNode),
                              index |-> g.GraphIndex[tv]]
     IN return(lookupNode(World("abort"), tv))
  /\ UNCHANGED << scopes, Representative, FixedType, InactiveConstraints >>
  /\ UNCHANGED solverVars

NextLookup ==
  \/ \E tv \in TypeVars : Lookup(tv)
  \/ \E c \in MutationConstraints : AddConstraint(c)
  \/ \E c \in MutationConstraints : RemoveConstraint(c)
  \/ OpenScope
  \/ CloseScope

SpecLookup == InitLookup /\ [][NextLookup]_vars

\* ---------------------------------------------- the step-by-step unwinding
\* ~ConstraintGraphScope one statement at a time.  While the destructor of
\* the innermost scope runs, result holds its position: pc "loop" at the
\* loop condition, "undo" inside Change::undo before its switch, "pop"
\* after the switch; journal is Changes as the destructor found it, undone
\* the entries whose switch has run, prevActiveScope the scope undo saved.
NotDestroying == result.Kind # "destroying"

\* The assertion at the head of the destructor.
DestroyBegin ==
  /\ ~aborted
  /\ NotDestroying
  /\ scopes # <<>>
  /\ aborted' = (Len(Changes) < scopes[Len(scopes)].NumChanges)
  /\ result' = IF aborted' THEN NoResult
               ELSE [Kind |-> "destroying", pc |-> "loop", journal |-> Changes,
                     undone |-> <<>>, prevActiveScope |-> 0]
  /\ lastScope' = NoScope
  /\ UNCHANGED << TypeVariables, GraphNode, GraphIndex, OrphanedConstraints,
                  Changes, ActiveScope, scopes, Representative, FixedType,
                  InactiveConstraints, ops >>
  /\ UNCHANGED solverVars

\* The loop condition holds and undo saves and clears the active scope.
UndoBegin ==
  /\ ~aborted
  /\ result.Kind = "destroying" /\ result.pc = "loop"
  /\ moreToUndo(World("abort"), scopes[Len(scopes)].NumChanges)
  /\ SetGraph(SaveAndRestore(World("abort")))
  /\ result' = [result EXCEPT !.pc = "undo", !.prevActiveScope = ActiveScope]
  /\ lastScope' = NoScope
  /\ UNCHANGED << scopes, Representative, FixedType, InactiveConstraints, ops >>
  /\ UNCHANGED solverVars

\* The switch of undo runs on the last entry of the journal.
UndoSwitch ==
  /\ ~aborted
  /\ result.Kind = "destroying" /\ result.pc = "undo"
  /\ \E ub \in UBOutcomes :
       SetGraph(undoSwitch(World(ub), back(Changes)))
  /\ result' = IF aborted' THEN NoResult
               ELSE [result EXCEPT !.pc = "pop",
                                   !.undone = Append(@, back(Changes))]
  /\ lastScope' = NoScope
  /\ UNCHANGED << scopes, Representative, FixedType, InactiveConstraints, ops >>
  /\ UNCHANGED solverVars

\* undo returns, which restores the active scope, and the entry is popped.
UndoEnd ==
  /\ ~aborted
  /\ result.Kind = "destroying" /\ result.pc = "pop"
  /\ ActiveScope' = result.prevActiveScope
  /\ Changes' = PopBack(Changes)
  /\ result' = [result EXCEPT !.pc = "loop", !.prevActiveScope = 0]
  /\ lastScope' = NoScope
  /\ UNCHANGED << TypeVariables, GraphNode, GraphIndex, OrphanedConstraints,
                  scopes, Representative, FixedType, InactiveConstraints,
                  aborted, ops >>
  /\ UNCHANGED solverVars

\* The loop condition fails: the parent scope becomes the active one, and
\* the solver scope restores the constraint system's own state.
DestroyEnd ==
  /\ ~aborted
  /\ result.Kind = "destroying" /\ result.pc = "loop"
  /\ ~moreToUndo(World("abort"), scopes[Len(scopes)].NumChanges)
  /\ ActiveScope' = scopes[Len(scopes)].ParentScope
  /\ Representative' = scopes[Len(scopes)].Representative
  /\ FixedType' = scopes[Len(scopes)].FixedType
  /\ InactiveConstraints' = scopes[Len(scopes)].InactiveConstraints
  /\ scopes' = PopBack(scopes)
  /\ lastScope' = scopes[Len(scopes)]
  /\ result' = NoResult
  /\ UNCHANGED << TypeVariables, GraphNode, GraphIndex, OrphanedConstraints,
                  Changes, aborted, ops >>
  /\ UNCHANGED solverVars

NextUnwind ==
  \/ NotDestroying /\ \E tv \in TypeVars : LookupNode(tv)
  \/ NotDestroying /\ \E c \in MutationConstraints : AddConstraint(c)
  \/ NotDestroying /\ \E c \in MutationConstraints : RemoveConstraint(c)
  \/ NotDestroying /\ \E m \in Merges : MergeEquivalenceClasses(m[1], m[2])
  \/ NotDestroying /\ \E b \in Bindings : AssignFixedType(b[1], b[2])
  \/ NotDestroying /\ OpenScope
  \/ DestroyBegin
  \/ UndoBegin
  \/ UndoSwitch
  \/ UndoEnd
  \/ DestroyEnd

SpecUnwind == Init /\ [][NextUnwind]_vars

\* ---------------------------------------- the connected-components universe
CCTypeVars == {0, 1, 2, 3}
CCConstraints == {5, 6, 7, 8, 9, 14}
CCMerges == {<<0, 1>>, <<2, 3>>}
CCBindings == {<<1, 1>>, <<2, 1>>, <<3, 4>>}
\* The lists of type variables the solver asks components for.
CCInputs == {<<0, 1, 2, 3>>, <<3, 2, 1, 0>>, <<0, 3>>, <<0, 2>>, <<1, 2>>, <<1, 3>>}

InitCC == InitOver(CCTypeVars) /\ PlainSolver(CCTypeVars)

\* The solver splits the system: CG.computeConnectedComponents(typeVars).
ComputeConnectedComponents(typeVars) ==
  /\ ~aborted
  /\ ops < MaxOps
  /\ ops' = ops + 1
  /\ \E ub \in UBOutcomes :
       LET return(computed) ==
             /\ Len(computed.g.Changes) <= MaxChanges
             /\ SetGraph(computed.g)
             /\ result' = IF computed.g.aborted THEN NoResult
                          ELSE [Kind |-> "components", typeVars |-> typeVars,
                                components |-> computed.components]
       IN return(computeConnectedComponents(World(ub), typeVars))
  /\ lastScope' = NoScope
  /\ UNCHANGED << scopes, Representative, FixedType, InactiveConstraints >>
  /\ UNCHANGED solverVars

NextCC ==
  \/ \E c \in CCConstraints : AddConstraint(c)
  \/ \E m \in CCMerges : MergeEquivalenceClasses(m[1], m[2])
  \/ \E b \in CCBindings : AssignFixedType(b[1], b[2])
  \/ \E typeVars \in CCInputs : ComputeConnectedComponents(typeVars)

SpecCC == InitCC /\ [][NextCC]_vars

\* ------------------------------------------------- the gathering universe
GatherConstraintIds == {1, 13, 6, 5}
GatheringKinds == {"EquivalenceClass", "AllMentions"}

\* The predicates the solver gathers with: everything, nothing, the
\* constraints that are still on the inactive list and mention $T1, the
\* constraints that do not mention $T0.
AcceptChoices == { {1, 13, 6, 5}, {}, {1, 13, 5}, {13, 6} }

\* The solver calls CG.gatherConstraints.
GatherConstraints(typeVar, kind, acceptConstraint) ==
  /\ ~aborted
  /\ ops < MaxOps
  /\ ops' = ops + 1
  /\ lastScope' = NoScope
  /\ LET return(st) ==
           /\ Len(st.g.Changes) <= MaxChanges
           /\ SetGraph(st.g)
           /\ result' = IF st.g.aborted THEN NoResult
                        ELSE [Kind |-> "gathered", typeVar |-> typeVar,
                              kind |-> kind, acceptConstraint |-> acceptConstraint,
                              constraints |-> st.constraints,
                              evaluated |-> st.evaluated]
     IN return(gatherConstraints(World("abort"), typeVar, kind, acceptConstraint))
  /\ UNCHANGED << scopes, Representative, FixedType, InactiveConstraints >>
  /\ UNCHANGED solverVars

NextGather ==
  \/ \E c \in GatherConstraintIds : AddConstraint(c)
  \/ \E c \in GatherConstraintIds : RemoveConstraint(c)
  \/ \E m \in CCMerges : MergeEquivalenceClasses(m[1], m[2])
  \/ \E b \in CCBindings : AssignFixedType(b[1], b[2])
  \/ OpenScope
  \/ CloseScope
  \/ \E tv \in CCTypeVars, kind \in GatheringKinds, accept \in AcceptChoices :
        GatherConstraints(tv, kind, accept)

SpecGather == InitCC /\ [][NextGather]_vars

\* --------------------------------------------------------------------------
\* Edge contraction.

\* shouldContractEdge
shouldContractEdge(kind) == kind \in {"Bind", "BindParam", "BindToPointerType", "Equal"}

\* removeEdge leaving the constraint system's lists alone.
removeEdgeKeepListed(g, constraint) == removeConstraint(g, constraint)
\* removeEdge leaving the graph alone.
removeEdgeFromListsOnly(g, constraint) ==
  [g EXCEPT !.ActiveConstraints = @ \ {constraint},
            !.InactiveConstraints = @ \ {constraint}]
\* ConstraintGraph::removeEdge
removeEdge(g, constraint) ==
  LET isExistingConstraint ==
        constraint \in g.ActiveConstraints \cup g.InactiveConstraints
      \* with the constraint out of both lists
      tell(erased) ==
        IF ~g.solverState.present THEN erased
        ELSE IF isExistingConstraint
        THEN [erased EXCEPT !.solverState.retiredConstraints = @ \cup {constraint}]
        ELSE [erased EXCEPT !.solverState.generatedConstraints = @ \ {constraint}]
  IN removeConstraint(
       tell([g EXCEPT !.ActiveConstraints = @ \ {constraint},
                      !.InactiveConstraints = @ \ {constraint}]),
       constraint)

\* The findIf of contractEdges: the type holds a type variable that can
\* bind to inout, or an InOut type.
hasInOut(g, type) ==
  \/ \E i \in 1..Len(type.vars) : g.Options[type.vars[i]].canBindToInOut
  \/ type.inOut

RECURSIVE isNotContractable(_, _, _, _)
\* The loop going on after a binding that gives true.
isNotContractableLast(g, bindings, i, soFar) ==
  IF bindings = <<>> THEN soFar ELSE hasInOut(g, bindings[Len(bindings)])
\* The loop of contractEdges over bindings[i..]: isNotContractable is what
\* the last binding looked at gave, and the loop stops at the first one that
\* gives true.
isNotContractable(g, bindings, i, soFar) ==
  IF i > Len(bindings) THEN soFar
  ELSE IF hasInOut(g, bindings[i]) THEN TRUE
  ELSE isNotContractable(g, bindings, i + 1, FALSE)

\* The check taking absent potential bindings for "nothing to fear".
skipsParamBindingIfPresent(g, tyvar1) ==
  /\ g.PotentialBindings[tyvar1].present
  /\ isNotContractable(g, g.PotentialBindings[tyvar1].Bindings, 1, TRUE)
\* The check of contractEdges on a parameter binding whose first type
\* variable can bind to inout: true when the edge is left alone.
skipsParamBinding(g, tyvar1) ==
  IF g.PotentialBindings[tyvar1].present
  THEN isNotContractable(g, g.PotentialBindings[tyvar1].Bindings, 1, TRUE)
  ELSE TRUE

RECURSIVE contractEach(_, _, _)
\* The loop of contractEdges over constraints[i..].  st holds the world g,
\* didContractEdges and, for the properties, the contractions made so far:
\* the constraint removeEdge was called with, the two representatives, and
\* whether CS.mergeEquivalenceClasses was called.
contractEach(st, constraints, i) ==
  IF st.g.aborted \/ i > Len(constraints) THEN st
  ELSE
    LET constraint == constraints[i]
        g == st.g
        kind == getKind(constraint)
        t1 == getFirstType(constraint)
        t2 == getSecondType(constraint)
        isParamBindingConstraint == kind = "BindParam"
        \* with the edge removed: merge the classes of rep1 and rep2
        merge(removed, rep1, rep2) ==
          IF removed.aborted \/ rep1 = rep2 THEN removed
          ELSE mergeEquivalenceClasses(removed, rep1, rep2)
        contract(rep1, rep2) ==
          IF g.Options[rep1].canBindToLValue = g.Options[rep2].canBindToLValue
             \/ isParamBindingConstraint
          THEN [g |-> merge(removeEdge(g, constraint), rep1, rep2),
                didContractEdges |-> TRUE,
                contracted |-> Append(st.contracted,
                                      [constraint |-> constraint,
                                       rep1 |-> rep1, rep2 |-> rep2,
                                       merged |-> rep1 # rep2])]
          ELSE st
        try(tyvar1, tyvar2) ==
          IF isParamBindingConstraint /\ g.Options[tyvar1].canBindToInOut
             /\ skipsParamBinding(g, tyvar1)
          THEN st
          ELSE contract(getRepresentative(g, tyvar1), getRepresentative(g, tyvar2))
    IN IF ~shouldContractEdge(kind) THEN [st EXCEPT !.g = Abort(g)]
       ELSE contractEach(
              IF t1.isTypeVariable /\ t2.isTypeVariable
              THEN try(t1.vars[1], t2.vars[1])
              ELSE st,
              constraints, i + 1)

\* The CS.findConstraints call of contractEdges: the registered constraints
\* of a kind to contract, in the order the constraint system lists them.
findConstraints(g, order) ==
  SelectSeq(order,
            LAMBDA c : /\ c \in g.ActiveConstraints \cup g.InactiveConstraints
                       /\ shouldContractEdge(getKind(c)))

\* ConstraintGraph::contractEdges
contractEdges(g, order) ==
  contractEach([g |-> g, didContractEdges |-> FALSE, contracted |-> <<>>],
               findConstraints(g, order), 1)

RECURSIVE optimize(_, _)
\* optimize giving up after its first pass.
optimizeOnce(g, order) == [g |-> contractEdges(g, order).g, passes |-> 1]
\* ConstraintGraph::optimize: passes until one contracts nothing.  Returns
\* the world and the number of passes made.
optimize(g, order) ==
  LET count(rest) == [g |-> rest.g, passes |-> rest.passes + 1]
      loop(pass) ==
        IF pass.g.aborted \/ ~pass.didContractEdges
        THEN [g |-> pass.g, passes |-> 1]
        ELSE count(optimize(pass.g, order))
  IN loop(contractEdges(g, order))

\* ------------------------------------------------- the contraction universe
OptConstraints == {1, 2, 9, 10, 11}

\* The orders in which the constraint system may list the constraints cs.
Orderings(cs) ==
  {order \in [1..Cardinality(cs) -> cs] :
     \A i, j \in 1..Cardinality(cs) : order[i] = order[j] => i = j}

\* What the solver may have as potential bindings of $T0: nothing, no
\* binding, a type without inout, such a type and an inout type in either
\* order, or a type that mentions $T0 itself.
OptBindings ==
  { NoBindings,
    [present |-> TRUE, Bindings |-> <<>>],
    [present |-> TRUE, Bindings |-> <<StructType(<<>>)>>],
    [present |-> TRUE, Bindings |-> <<StructType(<<>>), InOutType(<<>>)>>],
    [present |-> TRUE, Bindings |-> <<InOutType(<<>>), StructType(<<>>)>>],
    [present |-> TRUE, Bindings |-> <<StructType(<<0>>)>>] }

\* A constraint system, inside or outside the solver, in which $T1 can bind
\* to an l-value and $T0, which may be able to bind to inout, cannot.
InitOpt ==
  /\ InitOver(TypeVars)
  /\ solverState \in
       { NoSolverState,
         [present |-> TRUE, retiredConstraints |-> {}, generatedConstraints |-> {}] }
  /\ \E inout \in BOOLEAN :
       Options = [tv \in TypeVars |->
                    [canBindToLValue |-> tv = 1, canBindToInOut |-> inout /\ tv = 0]]
  /\ \E bindings \in OptBindings :
       PotentialBindings = [tv \in TypeVars |-> IF tv = 0 THEN bindings ELSE NoBindings]

\* The solver puts a constraint on its work list.
ActivateConstraint(c) ==
  /\ ~aborted
  /\ ops < MaxOps
  /\ ops' = ops + 1
  /\ c \in InactiveConstraints
  /\ InactiveConstraints' = InactiveConstraints \ {c}
  /\ ActiveConstraints' = ActiveConstraints \cup {c}
  /\ lastScope' = NoScope
  /\ result' = NoResult
  /\ UNCHANGED << TypeVariables, GraphNode, GraphIndex, OrphanedConstraints,
                  Changes, ActiveScope, scopes, Representative, FixedType,
                  solverState, Options, PotentialBindings, aborted >>

\* The solver calls CG.optimize().
Optimize ==
  /\ ~aborted
  /\ ops < MaxOps
  /\ ops' = ops + 1
  /\ \E order \in Orderings(ActiveConstraints \cup InactiveConstraints) :
       LET return(g, passes) ==
             /\ Len(g.Changes) <= MaxChanges
             /\ SetGraph(g)
             /\ Representative' = g.Representative
             /\ InactiveConstraints' = g.InactiveConstraints
             /\ ActiveConstraints' = g.ActiveConstraints
             /\ solverState' = g.solverState
             /\ result' = IF g.aborted THEN NoResult
                          ELSE [Kind |-> "optimized", passes |-> passes,
                                previousPasses |->
                                  IF result.Kind = "optimized" THEN result.passes
                                  ELSE 0]
           returned(optimized) == return(optimized.g, optimized.passes)
       IN returned(optimize(World("abort"), order))
  /\ lastScope' = NoScope
  /\ UNCHANGED << scopes, FixedType, Options, PotentialBindings >>

NextOpt ==
  \/ \E c \in OptConstraints : AddConstraint(c)
  \/ \E c \in OptConstraints : ActivateConstraint(c)
  \/ Optimize

SpecOpt == InitOpt /\ [][NextOpt]_vars

\* ------------------------------------------------- the single-pass universe
\* optimize() seen one iteration of its loop at a time: each step of
\* ContractEdges is one contractEdges() pass.
PassConstraints == {1, 2, 9, 10, 11, 12}

\* One contractEdges() pass.  result keeps the constraints the pass looked
\* at, in the order the constraint system listed them, and the contractions
\* it made.
ContractEdges ==
  /\ ~aborted
  /\ ops < MaxOps
  /\ ops' = ops + 1
  /\ \E order \in Orderings(ActiveConstraints \cup InactiveConstraints) :
       LET return(g, pass) ==
             /\ Len(g.Changes) <= MaxChanges
             /\ SetGraph(g)
             /\ Representative' = g.Representative
             /\ InactiveConstraints' = g.InactiveConstraints
             /\ ActiveConstraints' = g.ActiveConstraints
             /\ solverState' = g.solverState
             /\ result' = IF g.aborted THEN NoResult
                          ELSE [Kind |-> "contracted",
                                constraints |-> findConstraints(World("abort"), order),
                                didContractEdges |-> pass.didContractEdges,
                                contracted |-> pass.contracted]
           returned(pass) == return(pass.g, pass)
       IN returned(contractEdges(World("abort"), order))
  /\ lastScope' = NoScope
  /\ UNCHANGED << scopes, FixedType, Options, PotentialBindings >>

NextPass ==
  \/ \E c \in PassConstraints : AddConstraint(c)
  \/ \E c \in PassConstraints : ActivateConstraint(c)
  \/ ContractEdges

SpecPass == InitOpt /\ [][NextPass]_vars

\* --------------------------------------------------- the optimize() loop
\* `while (contractEdges()) {}` one step at a time.  While optimize() runs,
\* result holds where it is: about to call contractEdges ("call") or
\* testing what it returned ("test"), the passes made so far and what the
\* last one returned.  The solver does nothing else meanwhile.
NotOptimizing == result.Kind # "optimizing"

\* The solver calls CG.optimize().
OptimizeBegin ==
  /\ ~aborted
  /\ NotOptimizing
  /\ ops < MaxOps
  /\ ops' = ops + 1
  /\ result' = [Kind |-> "optimizing", pc |-> "call", passes |-> 0,
                didContractEdges |-> FALSE]
  /\ lastScope' = NoScope
  /\ UNCHANGED << TypeVariables, GraphNode, GraphIndex, OrphanedConstraints,
                  Changes, ActiveScope, scopes, Representative, FixedType,
                  InactiveConstraints, ActiveConstraints, solverState,
                  Options, PotentialBindings, aborted >>

\* The contractEdges() call of the loop condition.
OptimizePass ==
  /\ ~aborted
  /\ result.Kind = "optimizing" /\ result.pc = "call"
  /\ \E order \in Orderings(ActiveConstraints \cup InactiveConstraints) :
       LET return(g, pass) ==
             /\ SetGraph(g)
             /\ Representative' = g.Representative
             /\ InactiveConstraints' = g.InactiveConstraints
             /\ ActiveConstraints' = g.ActiveConstraints
             /\ solverState' = g.solverState
             /\ result' = IF g.aborted THEN NoResult
                          ELSE [result EXCEPT !.pc = "test",
                                              !.passes = @ + 1,
                                              !.didContractEdges = pass.didContractEdges]
           returned(pass) == return(pass.g, pass)
       IN returned(contractEdges(World("abort"), order))
  /\ UNCHANGED << scopes, FixedType, Options, PotentialBindings, ops, lastScope >>

\* contractEdges() returned true: the loop goes round.
OptimizeAgain ==
  /\ result.Kind = "optimizing" /\ result.pc = "test"
  /\ result.didContractEdges
  /\ result' = [result EXCEPT !.pc = "call"]
  /\ UNCHANGED << TypeVariables, GraphNode, GraphIndex, OrphanedConstraints,
                  Changes, ActiveScope, scopes, Representative, FixedType,
                  InactiveConstraints, ActiveConstraints, solverState,
                  Options, PotentialBindings, aborted, ops, lastScope >>

\* contractEdges() returned false: optimize() returns.
OptimizeReturn ==
  /\ result.Kind = "optimizing" /\ result.pc = "test"
  /\ ~result.didContractEdges
  /\ result' = [Kind |-> "returned", passes |-> result.passes]
  /\ UNCHANGED << TypeVariables, GraphNode, GraphIndex, OrphanedConstraints,
                  Changes, ActiveScope, scopes, Representative, FixedType,
                  InactiveConstraints, ActiveConstraints, solverState,
                  Options, PotentialBindings, aborted, ops, lastScope >>

NextLoop ==
  \/ NotOptimizing /\ \E c \in OptConstraints : AddConstraint(c)
  \/ NotOptimizing /\ \E c \in OptConstraints : ActivateConstraint(c)
  \/ OptimizeBegin
  \/ OptimizePass
  \/ OptimizeAgain
  \/ OptimizeReturn

SpecLoop == InitOpt /\ [][NextLoop]_vars

\* An OptimizePass step by what it does to result; no other step of
\* NextLoop leaves the call of contractEdges(), and OptimizePass can always
\* be taken there.
ContractEdgesReturns ==
  /\ ~aborted
  /\ result.Kind = "optimizing" /\ result.pc = "call"
  /\ \E didContractEdges \in BOOLEAN :
       result' \in {NoResult,
                    [result EXCEPT !.pc = "test", !.passes = @ + 1,
                                   !.didContractEdges = didContractEdges]}

\* optimize() is not suspended for ever: a call in progress makes its next
\* step, and the contractEdges() it calls returns (the loops of
\* contractEdges run over finite lists).
SpecLoopFair ==
  /\ SpecLoop
  /\ WF_result(ContractEdgesReturns)
  /\ WF_vars(OptimizeAgain)
  /\ WF_vars(OptimizeReturn)

\* --------------------------------------------------------------------------
\* Properties of the mutation specification.

HasNode(tv) == GraphNode[tv] # NullNode

\* A node's constraint-to-index map is the inverse of its constraint vector.
IndexMapIsInverse(node) ==
  /\ Cardinality(node.ConstraintIndex) = Len(node.Constraints)
  /\ \A i \in 1..Len(node.Constraints) :
       <<node.Constraints[i], i - 1>> \in node.ConstraintIndex
  /\ \A p, q \in node.ConstraintIndex : p[1] = q[1] => p = q
  /\ \A i, j \in 1..Len(node.Constraints) :
       node.Constraints[i] = node.Constraints[j] => i = j

\* An equivalence class as its accessor shows it: an empty one reads [self].
ObservedClass(node) ==
  IF node.EquivalenceClass = <<>> THEN <<node.TypeVar>> ELSE node.EquivalenceClass

C2_Incidence ==
  ~aborted =>
     /\ \A c \in InactiveConstraints :
          \A tv \in Range(getTypeVariables(c)) :
             HasNode(tv) /\ Contains(GraphNode[tv].Constraints, c)
     /\ \A tv \in TypeVars :
          HasNode(tv) =>
             \A c \in Range(GraphNode[tv].Constraints) :
                c \in InactiveConstraints /\ tv \in Range(getTypeVariables(c))

\* C2 witness: after a removal and a scope unwinding that re-added a
\* constraint, both constraints over $T1 are registered and in its node.
C2_Witness ==
  /\ ~aborted /\ lastScope # NoScope
  /\ Len(Changes) = 0
  /\ {1, 2} \subseteq InactiveConstraints
  /\ lastScope.opened.GraphNode[1] # NullNode
  /\ Len(lastScope.opened.GraphNode[1].Constraints) = 2
  /\ GraphNode[1].Constraints # lastScope.opened.GraphNode[1].Constraints

\* How often type variable u occurs in the fixed bindings of v's node.
FixedBindingCount(v, u) ==
  IF HasNode(v) THEN Count(GraphNode[v].FixedBindings, u) ELSE 0

\* C3: fixed bindings are symmetric, with multiplicity: u occurs in the
\* fixed bindings of v as often as v occurs in those of u.
C3_FixedBindingSymmetry ==
  ~aborted => \A u, v \in TypeVars : FixedBindingCount(v, u) = FixedBindingCount(u, v)

\* C7: in every node the constraint-to-index map has one entry per element
\* of the constraint vector, maps each constraint to its position, and the
\* vector holds no constraint twice.
C7_IndexMapConsistent ==
  ~aborted => \A tv \in TypeVars : HasNode(tv) => IndexMapIsInverse(GraphNode[tv])

\* C7 witness: inside a scope, the first of two constraints of $T1 has been
\* removed, so the last one was moved into its slot.
C7_Witness ==
  /\ ~aborted /\ scopes # <<>>
  /\ scopes[Len(scopes)].opened.GraphNode[1] # NullNode
  /\ scopes[Len(scopes)].opened.GraphNode[1].Constraints = <<1, 2>>
  /\ Changes = <<removedConstraint(1)>>
  /\ GraphNode[1].Constraints = <<2>>
  /\ GraphNode[1].ConstraintIndex = {<<2, 0>>}

IsOrphan(c) == getTypeVariables(c) = <<>>

\* C8: OrphanedConstraints holds exactly the registered constraints that
\* mention no type variable, each once, and no node's vector holds one.
C8_OrphanTracking ==
  ~aborted =>
     /\ Range(OrphanedConstraints) = {c \in InactiveConstraints : IsOrphan(c)}
     /\ \A i, j \in 1..Len(OrphanedConstraints) :
          OrphanedConstraints[i] = OrphanedConstraints[j] => i = j
     /\ \A tv \in TypeVars :
          HasNode(tv) => \A c \in Range(GraphNode[tv].Constraints) : ~IsOrphan(c)

\* C8 witness: inside a scope, the first of two orphaned constraints has
\* been removed and the other one is still listed.
C8_Witness ==
  /\ ~aborted /\ scopes # <<>>
  /\ scopes[Len(scopes)].opened.OrphanedConstraints = <<3, 4>>
  /\ Changes = <<removedConstraint(3)>>
  /\ OrphanedConstraints = <<4>>

\* C9: every type variable with a node that is not its own representative
\* occurs exactly once in the equivalence class of its representative's
\* node, and every member of a representative's class has it as its
\* representative.
C9_EquivalenceClassMembership ==
  ~aborted =>
     /\ \A tv \in TypeVars :
          (HasNode(tv) /\ Representative[tv] # tv) =>
             /\ HasNode(Representative[tv])
             /\ Count(GraphNode[Representative[tv]].EquivalenceClass, tv) = 1
     /\ \A r \in TypeVars :
          (HasNode(r) /\ Representative[r] = r) =>
             \A m \in Range(GraphNode[r].EquivalenceClass) : Representative[m] = r

\* C10: the type variable at each position of TypeVariables has a node and
\* that position as its graph index, and no type variable is listed twice.
C10_GraphIndexConsistent ==
  ~aborted =>
     /\ \A i \in 1..Len(TypeVariables) :
          /\ HasNode(TypeVariables[i])
          /\ GraphIndex[TypeVariables[i]] = i - 1
     /\ \A i, j \in 1..Len(TypeVariables) :
          TypeVariables[i] = TypeVariables[j] => i = j

\* C10 witness: a scope that created two nodes after an older one has been
\* destroyed, and the older node is still listed alone.
C10_Witness ==
  /\ ~aborted /\ lastScope # NoScope
  /\ Len(lastScope.opened.TypeVariables) = 1
  /\ TypeVariables = lastScope.opened.TypeVariables
  /\ \E tv \in TypeVars : GraphNode[tv] = NullNode /\ GraphIndex[tv] = 2

\* C11: a merge made under an open scope leaves the representative's class
\* equal to its previous contents ([r] if it was empty) followed by the
\* class of the other type variable's node; and closing the scope right
\* after the merge leaves the representative's node, if it was there before
\* the merge, with exactly the class it had before the merge ([r], or empty
\* if it was empty).
C11_MergeAndUndo ==
  [][/\ (result'.Kind = "merged" /\ ActiveScope # 0) =>
          LET r == result'.typeVarRep
              o == result'.typeVarNonRep
              previous == IF HasNode(r) /\ GraphNode[r].EquivalenceClass # <<>>
                          THEN GraphNode[r].EquivalenceClass ELSE <<r>>
          IN GraphNode'[r].EquivalenceClass
               = previous \o GraphNode'[o].EquivalenceClass
     /\ (result.Kind = "merged" /\ lastScope' # NoScope /\ ~aborted'
           /\ result.before # NullNode) =>
          GraphNode'[result.typeVarRep].EquivalenceClass
            = result.before.EquivalenceClass]_vars

\* The graph shows what snapshot opened shows, the order of the constraint
\* vectors and the materialisation of empty classes apart: the same
\* TypeVariables, the same nodes, each with the same constraints, the same
\* class and the same fixed bindings, each as often, and the same orphans.
ShowsSameAs(graphNode, typeVariables, orphanedConstraints, opened) ==
  /\ typeVariables = opened.TypeVariables
  /\ \A tv \in TypeVars :
        LET before == opened.GraphNode[tv]
            after == graphNode[tv]
        IN /\ (before = NullNode) = (after = NullNode)
           /\ after # NullNode =>
                /\ Range(after.Constraints) = Range(before.Constraints)
                /\ Len(after.Constraints) = Len(before.Constraints)
                /\ ObservedClass(after) = ObservedClass(before)
                /\ \A u \in TypeVars :
                      Count(after.FixedBindings, u) = Count(before.FixedBindings, u)
  /\ Range(orphanedConstraints) = Range(opened.OrphanedConstraints)
  /\ Len(orphanedConstraints) = Len(opened.OrphanedConstraints)

\* C17: when the inner of two nested scopes is destroyed, the journal is
\* cut back to the entries it held when that scope opened, those entries
\* unchanged, the graph shows what it showed when that scope opened, so
\* the mutations made in the outer scope before are still in effect, and
\* the outer scope is the active one again.
C17_NestedScopesUnwind ==
  [][(Len(scopes) = 2 /\ lastScope' # NoScope /\ ~aborted') =>
       /\ Changes' = SubSeq(Changes, 1, scopes[2].NumChanges)
       /\ ActiveScope' = 1
       /\ scopes' = <<scopes[1]>>
       /\ ShowsSameAs(GraphNode', TypeVariables', OrphanedConstraints',
                      scopes[2].opened)]_vars

\* The journal entries a step appended.
Appended == SubSeq(Changes', Len(Changes) + 1, Len(Changes'))

\* C18: a step that adds or removes a constraint, merges two classes,
\* binds a type variable to a type that mentions type variables or creates
\* a node appends the journal entry of each of these under an active scope
\* and leaves the journal alone otherwise; and whenever no scope is open
\* the journal is empty.
C18_JournalIffScope ==
  [][~aborted' =>
       /\ scopes' = <<>> => Changes' = <<>>
       /\ (ops' # ops /\ ActiveScope = 0) => Changes' = Changes
       /\ (ops' # ops /\ ActiveScope # 0) =>
            /\ Len(Changes') >= Len(Changes)
            /\ SubSeq(Changes', 1, Len(Changes)) = Changes
            /\ \A tv \in TypeVars :
                  (~HasNode(tv) /\ GraphNode'[tv] # NullNode)
                     <=> Contains(Appended, addedTypeVariable(tv))
            /\ \A c \in MutationConstraints :
                  /\ (c \in InactiveConstraints' \ InactiveConstraints)
                       <=> Contains(Appended, addedConstraint(c))
                  /\ (c \in InactiveConstraints \ InactiveConstraints')
                       <=> Contains(Appended, removedConstraint(c))
            /\ result'.Kind = "merged"
                 <=> \E i \in 1..Len(Appended) :
                        /\ Appended[i].Kind = "ExtendedEquivalenceClass"
                        /\ Appended[i].TypeVar = result'.typeVarRep
            /\ \A tv \in TypeVars :
                  (FixedType'[tv] # FixedType[tv] /\ hasTypeVariable(FixedType'[tv]))
                     <=> Contains(Appended, boundTypeVariable(tv, FixedType'[tv]))]_vars

\* C18 witness: a scope that opened on a graph with nodes and an empty
\* journal holds three entries, one of them for a node created in it.
C18_Witness ==
  /\ ~aborted
  /\ Len(scopes) = 1
  /\ scopes[1].opened.TypeVariables # <<>>
  /\ scopes[1].NumChanges = 0
  /\ Len(Changes) = 3
  /\ \E tv \in TypeVars : Contains(Changes, addedTypeVariable(tv))

\* C19: a call that adds a constraint already registered, or removes one
\* that is not registered, ends in an assertion failure, whether or not the
\* constraint mentions type variables.
C19_ViolationsFailLoudly ==
  [][result'.Kind = "violation" => aborted']_vars

\* --------------------------------------------------------------------------
\* Properties of the connected-components specification.  They are stated
\* in the state a computeConnectedComponents call leaves: result holds what
\* it returned and the graph is as the call left it.

IsUnbound(tv) == FixedType[Representative[tv]] = 0

\* The reported components that list tv.
ComponentsOf(tv) ==
  {i \in 1..Len(result.components) : Contains(result.components[i].typeVars, tv)}

InSameComponent(u, v) == ComponentsOf(u) \cap ComponentsOf(v) # {}

\* The pairs of type variables that occur together in a constraint of cs.
CoOccurrences(cs) ==
  {p \in CCTypeVars \X CCTypeVars :
     \E c \in cs : {p[1], p[2]} \subseteq Range(getTypeVariables(c))}

\* The constraints and the fixed bindings held by the nodes of tvs.
ConstraintsAt(tvs) ==
  UNION {Range(GraphNode[tv].Constraints) : tv \in {t \in tvs : HasNode(t)}}
FixedBindingsAt(tvs) ==
  {p \in CCTypeVars \X CCTypeVars :
     p[1] \in tvs /\ HasNode(p[1]) /\ Contains(GraphNode[p[1]].FixedBindings, p[2])}

\* The edges of the whole graph: same equivalence class, a fixed binding,
\* co-occurrence in a constraint (one-way or not).
GraphEdges ==
  {p \in CCTypeVars \X CCTypeVars : Representative[p[1]] = Representative[p[2]]}
    \cup FixedBindingsAt(CCTypeVars)
    \cup CoOccurrences(ConstraintsAt(CCTypeVars))

\* The edges that can be seen from the type variables of tvs: from each of
\* them to the members of its representative's equivalence class and to its
\* own fixed bindings, and among the type variables of each constraint held
\* by one of their nodes.
EdgesSeenFrom(tvs) ==
  {p \in CCTypeVars \X CCTypeVars :
     /\ p[1] \in tvs
     /\ HasNode(Representative[p[1]])
     /\ p[2] \in Range(ObservedClass(GraphNode[Representative[p[1]]]))}
    \cup FixedBindingsAt(tvs)
    \cup CoOccurrences(ConstraintsAt(tvs))

RECURSIVE ReachableFrom(_, _)
\* The type variables reachable from those of S along the edges E, taken
\* in both directions.
ReachableFrom(E, S) ==
  LET next == S \cup {p[2] : p \in {q \in E : q[1] \in S}}
                \cup {p[1] : p \in {q \in E : q[2] \in S}}
  IN IF next = S THEN S ELSE ReachableFrom(E, next)

Connected(E, u, v) == v \in ReachableFrom(E, {u})

\* C4 (as stated): two unbound type variables of the list given to
\* computeConnectedComponents are in the same reported component exactly
\* when they are connected in the graph whose edges are same equivalence
\* class, fixed binding and co-occurrence in a constraint, one-way or not.
C4_ComponentSoundness ==
  result.Kind = "components" =>
     \A u, v \in {tv \in Range(result.typeVars) : IsUnbound(tv)} :
        InSameComponent(u, v) <=> Connected(GraphEdges, u, v)

\* C4 (amended): two unbound type variables of the list V given to
\* computeConnectedComponents are in the same reported component exactly
\* when they are connected by edges seen from V: between a member of V and
\* the members of its representative's equivalence class, between a member
\* of V and its fixed bindings, and among the type variables of a
\* constraint (one-way or not) held by the node of a member of V.
C4_ComponentSoundnessFromV ==
  result.Kind = "components" =>
     \A u, v \in {tv \in Range(result.typeVars) : IsUnbound(tv)} :
        InSameComponent(u, v)
          <=> Connected(EdgesSeenFrom(Range(result.typeVars)), u, v)

\* C4 witness: components were computed for [$T0, $T2], which two
\* constraints join through $T1, and one component lists both.
C4_Witness ==
  /\ result.Kind = "components"
  /\ result.typeVars = <<0, 2>>
  /\ InactiveConstraints = {5, 9}
  /\ IsUnbound(0) /\ IsUnbound(2)
  /\ InSameComponent(0, 2)

\* C5: in every returned component, every index in the dependsOn list of
\* the one-way component at index i is smaller than i.
C5_DependencyOrder ==
  result.Kind = "components" =>
     \A c \in 1..Len(result.components) :
        LET oneWayComponents == result.components[c].oneWayComponents
        IN \A i \in 1..Len(oneWayComponents) :
              \A d \in Range(oneWayComponents[i].dependsOn) : d < i - 1

\* The edges seen from tvs before the one-way constraints join anything:
\* those of EdgesSeenFrom, the one-way constraints left out.
PreCollapseEdges(tvs) ==
  {p \in CCTypeVars \X CCTypeVars :
     /\ p[1] \in tvs
     /\ HasNode(Representative[p[1]])
     /\ p[2] \in Range(ObservedClass(GraphNode[Representative[p[1]]]))}
    \cup FixedBindingsAt(tvs)
    \cup CoOccurrences({c \in ConstraintsAt(tvs) : ~isOneWay(c)})

\* The pre-collapse set of tv, as seen from tvs.
PreCollapseSet(tvs, tv) == ReachableFrom(PreCollapseEdges(tvs), {tv})

\* The one-way edges among pre-collapse sets seen from tvs, as pairs of
\* members: from a right-hand-side variable to a left-hand-side variable.
OneWayEdges(tvs) ==
  {p \in CCTypeVars \X CCTypeVars :
     \E c \in {d \in ConstraintsAt(tvs) : isOneWay(d)} :
        /\ p[1] \in Range(getSecondType(c).vars)
        /\ p[2] \in Range(getFirstType(c).vars)}

RECURSIVE OneWayReachable(_, _)
\* The type variables whose pre-collapse set is reached from a set meeting
\* S along one-way edges; S itself only if an edge leads back to it.
OneWayReachable(tvs, S) ==
  LET step == UNION {PreCollapseSet(tvs, p[2]) :
                       p \in {q \in OneWayEdges(tvs) :
                                PreCollapseSet(tvs, q[1]) \cap S # {}}}
  IN IF step \subseteq S THEN step
     ELSE step \cup OneWayReachable(tvs, S \cup step)

\* C12: in every reported component the one-way components can be matched
\* with pre-collapse sets so that each carries the type variables of V of
\* its set, each once, and its dependsOn holds, each once and without its
\* own index, exactly the indices of the other one-way components from
\* whose set its set is reached along one or more one-way edges.
C12_DependencyCompleteness ==
  result.Kind = "components" =>
     LET V == Range(result.typeVars) IN
     \A c \in 1..Len(result.components) :
        LET owcs == result.components[c].oneWayComponents
        IN \E member \in [1..Len(owcs) -> CCTypeVars] :
              \A i \in 1..Len(owcs) :
                 /\ Range(owcs[i].typeVars) = PreCollapseSet(V, member[i]) \cap V
                 /\ Unique(owcs[i].typeVars) = owcs[i].typeVars
                 /\ Unique(owcs[i].dependsOn) = owcs[i].dependsOn
                 /\ Range(owcs[i].dependsOn) =
                      {j - 1 : j \in {k \in 1..Len(owcs) :
                          /\ k # i
                          /\ member[i] \in
                               OneWayReachable(V, PreCollapseSet(V, member[k]))}}

\* --------------------------------------------------------------------------
\* Properties of the contraction specification.

\* C6: an optimize() called right after optimize() returned makes one pass
\* that contracts nothing, and leaves the graph, the representatives and the
\* constraint system's lists as they were.
C6_ContractionIdempotent ==
  [][(result.Kind = "optimized" /\ result'.Kind = "optimized") =>
       /\ result'.passes = 1
       /\ TypeVariables' = TypeVariables
       /\ GraphNode' = GraphNode
       /\ OrphanedConstraints' = OrphanedConstraints
       /\ Representative' = Representative
       /\ InactiveConstraints' = InactiveConstraints
       /\ ActiveConstraints' = ActiveConstraints]_vars

\* C6 witness: optimize() has returned for the second time in a row, the
\* first call having needed three passes to merge $T0, $T1 and $T2.
C6_Witness ==
  /\ result.Kind = "optimized"
  /\ result.previousPasses = 3
  /\ Representative[1] = 0 /\ Representative[2] = 0

\* The constraints the constraint system holds, on or off its work list.
Registered == ActiveConstraints \cup InactiveConstraints

\* Some potential binding of tv holds, at any depth, a type variable that
\* can bind to inout or an InOut type.
HasInOutBinding(tv) ==
  /\ PotentialBindings[tv].present
  /\ \E i \in 1..Len(PotentialBindings[tv].Bindings) :
        LET type == PotentialBindings[tv].Bindings[i]
        IN \/ type.inOut
           \/ \E v \in Range(type.vars) : Options[v].canBindToInOut

\* The registered parameter bindings between two type variables whose first
\* type variable can bind to inout and has a potential binding with inout.
InOutRisks ==
  {c \in Registered :
     /\ getKind(c) = "BindParam"
     /\ getFirstType(c).isTypeVariable /\ getSecondType(c).isTypeVariable
     /\ Options[getFirstType(c).vars[1]].canBindToInOut
     /\ HasInOutBinding(getFirstType(c).vars[1])}

\* C13: optimize() leaves every parameter binding at inout risk where it
\* was: on the constraint system's lists, in the nodes of its two type
\* variables and not retired; and, when no other constraint joins its two
\* type variables, their representatives stay apart.
C13_InOutRiskNotContracted ==
  [][result'.Kind = "optimized" =>
       \A c \in InOutRisks :
          LET a == getFirstType(c).vars[1]
              b == getSecondType(c).vars[1]
          IN /\ (c \in InactiveConstraints) = (c \in InactiveConstraints')
             /\ (c \in ActiveConstraints) = (c \in ActiveConstraints')
             /\ Contains(GraphNode'[a].Constraints, c)
             /\ Contains(GraphNode'[b].Constraints, c)
             /\ solverState'.present => c \notin solverState'.retiredConstraints
             /\ (Representative[a] # Representative[b]
                  /\ \A d \in Registered \ {c} :
                        ~({a, b} \subseteq Range(getTypeVariables(d))))
                => Representative'[a] # Representative'[b]]_vars

\* C13 witness: optimize() has returned and the parameter binding of $T0 to
\* $T1, at risk through the inout type that comes first among the bindings
\* of $T0, is still registered with $T0 and $T1 apart.
C13_Witness ==
  /\ result.Kind = "optimized"
  /\ 10 \in InOutRisks
  /\ PotentialBindings[0].Bindings = <<InOutType(<<>>), StructType(<<>>)>>
  /\ Representative[0] = 0 /\ Representative[1] = 1

\* --------------------------------------------------------------------------
\* Properties of the single-pass specification.  They look at the first
\* constraint a pass examines, whose representatives are those of the state
\* the pass started in; every registered constraint comes first in some
\* order.

\* c is a parameter binding whose first type variable can bind to inout.
IsInOutParamBinding(c) ==
  /\ getKind(c) = "BindParam"
  /\ Options[getFirstType(c).vars[1]].canBindToInOut

\* The representatives of the two type variables of c agree on binding to
\* an l-value, or c is a parameter binding.
LValuesAgree(c) ==
  \/ Options[Representative[getFirstType(c).vars[1]]].canBindToLValue
       = Options[Representative[getSecondType(c).vars[1]]].canBindToLValue
  \/ getKind(c) = "BindParam"

\* The potential bindings of tv are there, are not empty, and none holds
\* an inout-capable type variable or an InOut type.
BindingsProveNoInOut(tv) ==
  /\ PotentialBindings[tv].present
  /\ PotentialBindings[tv].Bindings # <<>>
  /\ ~HasInOutBinding(tv)

\* C14 (as stated): the first constraint a pass examines, when both its
\* operands are type variables a and b, is contracted (taken off the
\* lists) exactly when (i) it is not a parameter binding with an
\* inout-capable a some potential binding of which holds inout, and (ii)
\* the representatives agree on l-values or it is a parameter binding.
C14_ContractionDecision ==
  [][(result'.Kind = "contracted" /\ result'.constraints # <<>>) =>
       LET c == result'.constraints[1]
       IN (getFirstType(c).isTypeVariable /\ getSecondType(c).isTypeVariable) =>
            ((c \notin ActiveConstraints' \cup InactiveConstraints')
               <=> (c \notin InOutRisks /\ LValuesAgree(c)))]_vars

\* C14 (amended): the same, with (i) reading: it is not a parameter binding
\* with an inout-capable a, or the potential bindings of a are present, not
\* empty, and none of them holds inout.
C14_ContractionDecisionProven ==
  [][(result'.Kind = "contracted" /\ result'.constraints # <<>>) =>
       LET c == result'.constraints[1]
       IN (getFirstType(c).isTypeVariable /\ getSecondType(c).isTypeVariable) =>
            ((c \notin ActiveConstraints' \cup InactiveConstraints')
               <=> /\ IsInOutParamBinding(c)
                       => BindingsProveNoInOut(getFirstType(c).vars[1])
                   /\ LValuesAgree(c))]_vars

\* C14 witness: a pass that examined the parameter binding of the
\* inout-capable $T0 to $T1 first has contracted it, the one potential
\* binding of $T0 holding no inout, although $T0 and $T1 differ on l-values.
C14_Witness ==
  /\ result.Kind = "contracted"
  /\ result.constraints # <<>> /\ result.constraints[1] = 10
  /\ Options[0].canBindToInOut
  /\ PotentialBindings[0] = [present |-> TRUE, Bindings |-> <<StructType(<<>>)>>]
  /\ 10 \notin Registered
  /\ Representative[1] = 0

\* --------------------------------------------------------------------------
\* Properties of the gathering specification.  They are stated in the state
\* a gatherConstraints call leaves: result holds its arguments, what it
\* returned and the constraints it called the predicate with.

\* Scenario S6 has been run: $T0, $T1 and $T2 are their own
\* representatives, nothing is bound, the registered constraints are
\* c1 = Bind($T0, $T1), c2 = Bind($T1, $T2) and c3 = Equal($T2, $T3), and
\* gatherConstraints($T0, AllMentions, always true) has returned.
GatheredS6 ==
  /\ result.Kind = "gathered"
  /\ result.typeVar = 0
  /\ result.kind = "AllMentions"
  /\ result.acceptConstraint = GatherConstraintIds
  /\ InactiveConstraints = {1, 13, 6}
  /\ \A tv \in CCTypeVars : Representative[tv] = tv /\ FixedType[tv] = 0
  /\ \A tv \in CCTypeVars : HasNode(tv) => GraphNode[tv].FixedBindings = <<>>

\* C15 (as stated): in scenario S6 the call returns c1, c2 and c3, each
\* once.
C15_GatherAllMentions ==
  GatheredS6 =>
     /\ Range(result.constraints) = {1, 13, 6}
     /\ Len(result.constraints) = 3

\* C15 (amended): in scenario S6 the call returns c1 and c2, each once and
\* in this order.  c3 is not returned: it is held by $T2 and $T3 only, and
\* the walk stops at the type variables the constraints of $T0 mention.
C15_GatherOneHop ==
  GatheredS6 => result.constraints = <<1, 13>>

\* C15 witness: scenario S6 has been run.
C15_Witness ==
  /\ GatheredS6
  /\ Contains(GraphNode[2].Constraints, 6)
  /\ Contains(result.constraints, 13)

\* C16: the sequence gatherConstraints returns holds no constraint twice
\* and only constraints the predicate was called with and accepted, and
\* the predicate was called at most once with each constraint.
C16_GatherDeduplicates ==
  result.Kind = "gathered" =>
     /\ Unique(result.constraints) = result.constraints
     /\ Range(result.constraints)
          = Range(result.evaluated) \cap result.acceptConstraint
     /\ Unique(result.evaluated) = result.evaluated

\* C16 witness: constraints were gathered with AllMentions from $T1, whose
\* class [$T0, $T1] shares Equal($T0, $T1) and Bind($T0, $T1), and both
\* were returned.
C16_Witness ==
  /\ result.Kind = "gathered"
  /\ result.kind = "AllMentions"
  /\ result.typeVar = 1
  /\ Representative[1] = 0
  /\ {1, 5} \subseteq InactiveConstraints
  /\ {1, 5} \subseteq Range(result.constraints)

\* The journal entries the closing of the last scope has undone.
Undone == SubSeq(Changes, lastScope'.NumChanges + 1, Len(Changes))

\* The type variables that have a node.
Listed(typeVariables) == Range(typeVariables)

\* C20: a call into the graph (adding or removing a constraint, merging
\* two classes, binding a type variable, gathering constraints) keeps
\* every listed type variable listed at its position and with its node,
\* also when it takes the last constraint off a node; the closing of a
\* scope unlists a type variable only when it undoes the AddedTypeVariable
\* entry of that variable, and never one that was listed when the scope
\* was opened, so never one whose node was created outside every scope.
C20_NodeLifecycle ==
  [][~aborted' =>
       /\ lastScope' = NoScope =>
            /\ Len(TypeVariables') >= Len(TypeVariables)
            /\ SubSeq(TypeVariables', 1, Len(TypeVariables)) = TypeVariables
            /\ \A tv \in Listed(TypeVariables) :
                  GraphNode[tv] # NullNode => GraphNode'[tv] # NullNode
       /\ lastScope' # NoScope =>
            /\ \A tv \in Listed(TypeVariables) \ Listed(TypeVariables') :
                  Contains(Undone, addedTypeVariable(tv))
            /\ \A tv \in Listed(lastScope'.opened.TypeVariables) :
                  /\ tv \in Listed(TypeVariables')
                  /\ GraphNode'[tv] # NullNode
  ]_vars

\* An inner scope is closed and the outer one is still open.  Inside the
\* outer scope a constraint was removed and left the node of one of its
\* type variables without constraints, and a node was created for another
\* type variable: both nodes are still listed.
C20_Witness ==
  /\ ~aborted
  /\ lastScope # NoScope
  /\ lastScope.ParentScope # 0
  /\ \E c \in GatherConstraintIds :
        /\ Contains(Changes, removedConstraint(c))
        /\ \E tv \in Range(getTypeVariables(c)) :
              /\ tv \in Listed(TypeVariables)
              /\ GraphNode[tv] # NullNode
              /\ GraphNode[tv].Constraints = <<>>
  /\ \E tv \in CCTypeVars :
        /\ Contains(Changes, addedTypeVariable(tv))
        /\ tv \in Listed(TypeVariables)
        /\ GraphNode[tv] # NullNode

\* The entries of s in reverse order.
Reverse(s) == [i \in 1..Len(s) |-> s[Len(s) + 1 - i]]

\* The scope whose destructor is running.
Destroyed == scopes[Len(scopes)]

\* C21: while a scope is destroyed, the active scope is null from the
\* moment undo has cleared it until undo returns; the switch of undo, with
\* the remove_constraint, add_constraint, unbind and remove_node calls it
\* makes, leaves the journal as it was; the return of undo takes exactly the
\* undone entry off the journal; and the destructor ends with the journal at
\* the length the scope recorded when it opened, having undone the entries
\* above that length once each, last first.
C21_UndoNeverRejournals ==
  [][(result.Kind = "destroying" /\ ~aborted') =>
       /\ result.pc \in {"undo", "pop"} => ActiveScope = 0
       /\ result.pc = "undo" =>
            /\ Changes' = Changes
            /\ ActiveScope' = 0
       /\ result.pc = "pop" =>
            /\ Len(Changes') = Len(Changes) - 1
            /\ Changes' = SubSeq(result.journal, 1, Len(Changes) - 1)
            /\ result.undone =
                 Reverse(SubSeq(result.journal, Len(Changes), Len(result.journal)))
            /\ ActiveScope' = Len(scopes)
       /\ result'.Kind # "destroying" =>
            /\ Len(Changes') = Destroyed.NumChanges
            /\ Changes' = SubSeq(result.journal, 1, Destroyed.NumChanges)
            /\ result.undone =
                 Reverse(SubSeq(result.journal, Destroyed.NumChanges + 1,
                                Len(result.journal)))
  ]_vars

\* The destructor of a scope with three journal entries, one of each of
\* three kinds, is about to finish: all three are undone.
C21_Witness ==
  /\ ~aborted
  /\ result.Kind = "destroying"
  /\ result.pc = "loop"
  /\ Len(result.undone) = 3
  /\ Cardinality({result.undone[i].Kind : i \in 1..3}) = 3
  /\ Len(Changes) = Destroyed.NumChanges

\* The type variables the last step gave a fixed type.
JustBound == {tv \in DOMAIN FixedType : FixedType[tv] = 0 /\ FixedType'[tv] # 0}

\* C22: a call that binds a type variable to a fixed type without type
\* variables leaves the list of type variables, every node, the graph
\* indices, the orphaned constraints, the journal and the active scope as
\* they were, so creates no node, under a scope or not.
C22_BindWithoutTypeVariablesIsNoOp ==
  [][(ops' # ops /\ \E tv \in JustBound : ~hasTypeVariable(FixedType'[tv])) =>
       /\ ~aborted'
       /\ TypeVariables' = TypeVariables
       /\ GraphNode' = GraphNode
       /\ GraphIndex' = GraphIndex
       /\ OrphanedConstraints' = OrphanedConstraints
       /\ Changes' = Changes
       /\ ActiveScope' = ActiveScope
  ]_vars

\* Under a scope that has journalled something, a type variable without a
\* node was bound to a type without type variables: it still has no node.
C22_Witness ==
  /\ ~aborted
  /\ ActiveScope # 0
  /\ Changes # <<>>
  /\ \E tv \in TypeVars :
        /\ FixedType[tv] # 0
        /\ ~hasTypeVariable(FixedType[tv])
        /\ scopes[ActiveScope].FixedType[tv] = 0
        /\ GraphNode[tv] = NullNode

\* The fixed bindings of a type variable in a node map; none without a node.
FixedBindingsIn(graphNode, tv) ==
  IF graphNode[tv] = NullNode THEN <<>> ELSE graphNode[tv].FixedBindings

\* s without the entries equal to x.
Without(s, x) == SelectSeq(s, LAMBDA y : y # x)

\* The distinct type variables other than tv that the fixed type mentions.
OthersMentioned(tv, fixed) == Without(Unique(FixedTypeTable[fixed]), tv)

\* C23: a call that binds tv to a fixed type mentioning type variables
\* appends to the fixed bindings of tv the distinct other variables the
\* type mentions, once each, appends tv once to the fixed bindings of each
\* of them, and leaves every other list of fixed bindings alone, whether
\* the nodes existed before the call or not.
C23_BindAddsEachPairOnce ==
  [][\A tv \in JustBound :
       (ops' # ops /\ hasTypeVariable(FixedType'[tv]) /\ ~aborted') =>
         \A w \in DOMAIN GraphNode :
           FixedBindingsIn(GraphNode', w) =
             FixedBindingsIn(GraphNode, w) \o
               (IF w = tv THEN OthersMentioned(tv, FixedType'[tv])
                ELSE IF Contains(OthersMentioned(tv, FixedType'[tv]), w)
                THEN <<tv>> ELSE <<>>)
  ]_vars

\* The entries of the journal that belong to the innermost scope.
OwnChanges == SubSeq(Changes, scopes[Len(scopes)].NumChanges + 1, Len(Changes))

\* C24: when the only thing a scope has journalled is one binding of a
\* type variable, which may be to a type that mentions the variable
\* itself, the unbinding that closes the scope leaves every node with the
\* fixed bindings it had when the scope opened.
C24_UnbindReversesBind ==
  [][(/\ lastScope' # NoScope
      /\ ~aborted'
      /\ Len(OwnChanges) = 1
      /\ OwnChanges[1].Kind = "BoundTypeVariable") =>
       \A w \in DOMAIN GraphNode :
         FixedBindingsIn(GraphNode', w) =
           FixedBindingsIn(lastScope'.opened.GraphNode, w)
  ]_vars

\* The type variables the last step created a node for.
JustCreated ==
  {tv \in DOMAIN GraphNode : GraphNode[tv] = NullNode /\ GraphNode'[tv] # NullNode}

\* C25: a step that creates a node for tv ends with tv in the equivalence
\* class of the node of its representative, when that is another variable,
\* and otherwise with tv and each other variable its fixed type mentions in
\* one another's fixed bindings; and looking up a type variable that has a
\* node returns the index it has and changes neither graph nor journal.
C25_LookupReflectsState ==
  [][ /\ (ops' # ops /\ ~aborted') =>
           \A tv \in JustCreated :
             IF Representative'[tv] # tv
             THEN /\ GraphNode'[Representative'[tv]] # NullNode
                  /\ Contains(GraphNode'[Representative'[tv]].EquivalenceClass, tv)
             ELSE FixedType'[tv] # 0 =>
                    \A u \in Range(OthersMentioned(tv, FixedType'[tv])) :
                      /\ Contains(FixedBindingsIn(GraphNode', tv), u)
                      /\ Contains(FixedBindingsIn(GraphNode', u), tv)
      /\ (ops' # ops /\ result'.Kind = "lookedUp"
            /\ GraphNode[result'.typeVar] # NullNode) =>
           /\ ~aborted'
           /\ ~result'.created
           /\ result'.index = GraphIndex[result'.typeVar]
           /\ TypeVariables[result'.index + 1] = result'.typeVar
           /\ TypeVariables' = TypeVariables
           /\ GraphNode' = GraphNode
           /\ GraphIndex' = GraphIndex
           /\ OrphanedConstraints' = OrphanedConstraints
           /\ Changes' = Changes
           /\ ActiveScope' = ActiveScope
  ]_vars

\* A lookup has just created the node of a type variable whose
\* representative is another variable.  The representative, which is
\* bound to a type that mentions type variables, got its node later in
\* the same call: it is listed after the variable looked up.
C25_Witness ==
  /\ ~aborted
  /\ result.Kind = "lookedUp"
  /\ result.created
  /\ Representative[result.typeVar] # result.typeVar
  /\ GraphNode[Representative[result.typeVar]] # NullNode
  /\ GraphIndex[result.typeVar] < GraphIndex[Representative[result.typeVar]]
  /\ Contains(GraphNode[Representative[result.typeVar]].EquivalenceClass,
              result.typeVar)
  /\ GraphNode[Representative[result.typeVar]].FixedBindings # <<>>

\* The members of the equivalence class the graph keeps for the
\* representative of v.
ClassMembers(v) ==
  LET node == GraphNode[Representative[v]]
  IN IF node = NullNode \/ node.EquivalenceClass = <<>> THEN {Representative[v]}
     ELSE Range(node.EquivalenceClass)

\* The members of the classes of the type variables in vs.
ClassesOf(vs) == UNION {ClassMembers(v) : v \in vs}

\* The constraints attached to the nodes of the type variables in vs.
AttachedTo(vs) ==
  UNION {Range(GraphNode[m].Constraints) : m \in {v \in vs : HasNode(v)}}

\* The type variables in the fixed bindings of the members of vs.
FixedNeighbours(vs) ==
  UNION {Range(GraphNode[m].FixedBindings) : m \in {v \in vs : HasNode(v)}}

\* The type variables the constraints in cs mention.
MentionedBy(cs) == UNION {Range(getTypeVariables(c)) : c \in cs}

\* What a gathering from typeVar reaches when it follows the mentions of
\* the constraints in through.
Reached(typeVar, kind, through) ==
  LET own == ClassMembers(typeVar)
  IN AttachedTo(own \cup ClassesOf(FixedNeighbours(own))
                \cup (IF kind = "AllMentions"
                      THEN ClassesOf(MentionedBy(AttachedTo(own) \cap through))
                      ELSE {}))

\* C26 (as stated): gatherConstraints returns exactly the accepted
\* constraints attached to the class of typeVar, to the classes of the
\* fixed bindings of its members and, with AllMentions only, to the
\* classes of the type variables mentioned by the accepted constraints of
\* the members of the class of typeVar.
C26_GatherExtent ==
  result.Kind = "gathered" =>
     Range(result.constraints) =
       result.acceptConstraint
         \cap Reached(result.typeVar, result.kind, result.acceptConstraint)

\* C26 (amended): as above, but with AllMentions the walk goes on to the
\* classes of the type variables mentioned by every constraint of the
\* members of the class of typeVar, accepted or not.
C26_GatherExtentThroughAll ==
  result.Kind = "gathered" =>
     Range(result.constraints) =
       result.acceptConstraint
         \cap Reached(result.typeVar, result.kind, GatherConstraintIds)

\* A gathering from $T3 that accepts the constraints that do not mention
\* $T0 ran with AllMentions.  $T3 is bound to a type that mentions $T2,
\* whose node holds Bind($T1, $T2): the walk reached it through the fixed
\* binding.  Equal($T2, $T3) was returned too.
C26_Witness ==
  /\ result.Kind = "gathered"
  /\ result.kind = "AllMentions"
  /\ result.typeVar = 3
  /\ result.acceptConstraint = {13, 6}
  /\ Contains(GraphNode[3].FixedBindings, 2)
  /\ Range(result.constraints) = {13, 6}

\* The type variables of V in the connected set of v, as seen from V.
ConnectedSetIn(V, v) == ReachableFrom(EdgesSeenFrom(V), {v}) \cap V

\* C27: every reported component lists a type variable of V that has no
\* fixed type; a type variable of V whose connected set holds an unbound
\* type variable of V is listed once, in one component; one whose
\* connected set holds none is listed nowhere.
C27_OnlyUnboundComponents ==
  result.Kind = "components" =>
     LET V == Range(result.typeVars) IN
     /\ \A c \in 1..Len(result.components) :
           \E tv \in Range(result.components[c].typeVars) :
              tv \in V /\ IsUnbound(tv)
     /\ \A v \in V :
           IF \E u \in ConnectedSetIn(V, v) : IsUnbound(u)
           THEN /\ Cardinality(ComponentsOf(v)) = 1
                /\ \A c \in ComponentsOf(v) :
                      Count(result.components[c].typeVars, v) = 1
           ELSE ComponentsOf(v) = {}

\* Components were computed for all four type variables, $T1 and $T2
\* bound: $T1 is reported with the unbound $T0, which a constraint joins
\* it to; $T2, joined to nothing, is reported nowhere.
C27_Witness ==
  /\ result.Kind = "components"
  /\ Range(result.typeVars) = CCTypeVars
  /\ 5 \in InactiveConstraints
  /\ IsUnbound(0) /\ ~IsUnbound(1) /\ ~IsUnbound(2)
  /\ InSameComponent(0, 1)
  /\ ComponentsOf(2) = {}

\* C28: over the components one call reports, no constraint is listed
\* twice, in one component or in two; a component lists every constraint
\* held by the node of one of its type variables; and it lists every type
\* variable of V that one of its constraints mentions.
C28_ConstraintsPartitioned ==
  result.Kind = "components" =>
     LET V == Range(result.typeVars)
         components == result.components
     IN /\ \A c \in 1..Len(components) :
              Unique(components[c].constraints) = components[c].constraints
        /\ \A c, d \in 1..Len(components) :
              c # d => Range(components[c].constraints)
                         \cap Range(components[d].constraints) = {}
        /\ \A c \in 1..Len(components) :
              \A v \in Range(components[c].typeVars) :
                 HasNode(v) /\ Range(GraphNode[v].Constraints)
                                \subseteq Range(components[c].constraints)
        /\ \A c \in 1..Len(components) :
              \A k \in Range(components[c].constraints) :
                 Range(getTypeVariables(k)) \cap V
                   \subseteq Range(components[c].typeVars)

\* Components were computed for all four type variables with
\* Equal($T0, $T1) and Equal($T2, $T3) registered: two components, one
\* constraint each, though two nodes hold each constraint.
C28_Witness ==
  /\ result.Kind = "components"
  /\ Range(result.typeVars) = CCTypeVars
  /\ InactiveConstraints = {5, 6}
  /\ Len(result.components) = 2
  /\ \E c, d \in 1..2 :
        /\ result.components[c].constraints = <<5>>
        /\ result.components[d].constraints = <<6>>
  /\ Contains(GraphNode[0].Constraints, 5) /\ Contains(GraphNode[1].Constraints, 5)

RECURSIVE Flatten(_)
\* The concatenation of the sequences in ss.
Flatten(ss) == IF ss = <<>> THEN <<>> ELSE Head(ss) \o Flatten(Tail(ss))

\* A computeConnectedComponents answer lists its components by the
\* position in V of their first type variable, the type variables of each
\* in the order of V, and the constraints of each in the order a walk
\* over these type variables and the constraints of their nodes meets them.
InEncounterOrder(answer, graphNode) ==
  LET V == answer.typeVars
      components == answer.components
  IN /\ \A c, d \in 1..Len(components) :
           c < d => IndexOf(V, components[c].typeVars[1])
                      < IndexOf(V, components[d].typeVars[1])
     /\ \A c \in 1..Len(components) :
           /\ components[c].typeVars # <<>>
           /\ components[c].typeVars =
                SelectSeq(V, LAMBDA v : Contains(components[c].typeVars, v))
           /\ components[c].constraints =
                Unique(Flatten([i \in 1..Len(components[c].typeVars) |->
                          graphNode[components[c].typeVars[i]].Constraints]))

\* C29: every answer of computeConnectedComponents is in encounter order,
\* and a second call with the same V right after a first one returns the
\* same components.
C29_DeterministicOrder ==
  [][ /\ result'.Kind = "components" => InEncounterOrder(result', GraphNode')
      /\ (/\ result.Kind = "components"
          /\ result'.Kind = "components"
          /\ ops' # ops
          /\ result'.typeVars = result.typeVars) =>
           result'.components = result.components
  ]_vars

\* The one-way components of the reported components that list tv, as
\* pairs of a component and a position in its oneWayComponents.
OneWayComponentsOf(tv) ==
  {p \in (1..Len(result.components)) \X (1..Cardinality(CCTypeVars)) :
     /\ p[2] <= Len(result.components[p[1]].oneWayComponents)
     /\ Contains(result.components[p[1]].oneWayComponents[p[2]].typeVars, tv)}

\* C30: two unbound type variables of V that are connected, but not
\* without a one-way constraint, are in the same reported component and
\* each in a one-way component of it, never both in the same one; and two
\* type variables listed by the same one-way component are connected
\* without a one-way constraint.
C30_OneWayKeepsSubcomponents ==
  result.Kind = "components" =>
     LET V == Range(result.typeVars) IN
     /\ \A u, v \in {tv \in V : IsUnbound(tv)} :
           (/\ Connected(EdgesSeenFrom(V), u, v)
            /\ ~Connected(PreCollapseEdges(V), u, v)) =>
              /\ InSameComponent(u, v)
              /\ OneWayComponentsOf(u) # {}
              /\ OneWayComponentsOf(v) # {}
              /\ OneWayComponentsOf(u) \cap OneWayComponentsOf(v) = {}
     /\ \A u, v \in CCTypeVars :
           OneWayComponentsOf(u) \cap OneWayComponentsOf(v) # {} =>
              Connected(PreCollapseEdges(V), u, v)

\* --------------------------------------------------------------------------
\* Properties of one contraction.

RECURSIVE RepresentativesAfter(_, _, _)
\* The constraint system's representatives after it merged, starting from
\* rep, the classes of the two type variables of each of the first n
\* constraints of cs, in that order and only when they were apart.
RepresentativesAfter(rep, cs, n) ==
  IF n = 0 THEN rep
  ELSE LET before == RepresentativesAfter(rep, cs, n - 1)
           a == before[getFirstType(cs[n]).vars[1]]
           b == before[getSecondType(cs[n]).vars[1]]
       IN IF a = b THEN before ELSE MergedRepresentative(before, a, b)

\* The constraints a pass contracted, in the order it did.
ContractedBy(pass) == [i \in 1..Len(pass.contracted) |-> pass.contracted[i].constraint]

\* C31: after a contractEdges() pass, every constraint it contracted is in
\* no node's constraint list and on neither list of the constraint system,
\* and the constraint system was asked to merge the representatives its two
\* type variables had at that moment exactly when they differed; every
\* other registered constraint is on the same list as before and in the
\* nodes of its type variables, and the representatives are those the
\* merges of the contracted constraints give.
C31_ContractionEffect ==
  [][result'.Kind = "contracted" =>
       LET cs == ContractedBy(result')
       IN /\ \A i \in 1..Len(cs) :
               LET k == result'.contracted[i]
                   before == RepresentativesAfter(Representative, cs, i - 1)
               IN /\ getFirstType(cs[i]).isTypeVariable
                  /\ getSecondType(cs[i]).isTypeVariable
                  /\ cs[i] \in Registered
                  /\ cs[i] \notin ActiveConstraints' \cup InactiveConstraints'
                  /\ \A tv \in TypeVars :
                        GraphNode'[tv] # NullNode =>
                          ~Contains(GraphNode'[tv].Constraints, cs[i])
                  /\ k.rep1 = before[getFirstType(cs[i]).vars[1]]
                  /\ k.rep2 = before[getSecondType(cs[i]).vars[1]]
                  /\ k.merged <=> k.rep1 # k.rep2
          /\ \A c \in Registered \ Range(cs) :
               /\ (c \in ActiveConstraints') = (c \in ActiveConstraints)
               /\ (c \in InactiveConstraints') = (c \in InactiveConstraints)
               /\ \A tv \in Range(getTypeVariables(c)) :
                     /\ GraphNode'[tv] # NullNode
                     /\ Contains(GraphNode'[tv].Constraints, c)
          /\ Representative' = RepresentativesAfter(Representative, cs, Len(cs))]_vars

\* C31 witness: a pass has contracted the parameter binding of $T0 to $T1,
\* merging them, and then the binding of $T0 to $T1 without a merge, and
\* has left the conversion of $T1 to $T2 registered.
C31_Witness ==
  /\ result.Kind = "contracted"
  /\ ContractedBy(result) = <<10, 1>>
  /\ result.contracted[1].merged /\ ~result.contracted[2].merged
  /\ Registered = {9}
  /\ Contains(GraphNode[1].Constraints, 9)
  /\ Representative[1] = 0 /\ Representative[2] = 2

\* --------------------------------------------------------------------------
\* Properties of the optimize() loop.

\* c meets the conditions under which contractEdges() contracts it, with
\* the inout test as section 4.E words it: skipped when some potential
\* binding of an inout-capable first type variable holds inout.
MeetsStatedConditions(c) ==
  /\ shouldContractEdge(getKind(c))
  /\ getFirstType(c).isTypeVariable /\ getSecondType(c).isTypeVariable
  /\ c \notin InOutRisks
  /\ LValuesAgree(c)

\* The same with the inout test as contractEdges() makes it: contracted
\* only when the potential bindings are there, are not empty and none
\* holds inout.
MeetsTestedConditions(c) ==
  /\ shouldContractEdge(getKind(c))
  /\ getFirstType(c).isTypeVariable /\ getSecondType(c).isTypeVariable
  /\ IsInOutParamBinding(c) => BindingsProveNoInOut(getFirstType(c).vars[1])
  /\ LValuesAgree(c)

\* While optimize() runs no constraint is added, and a pass that reports a
\* contraction has taken at least one constraint off the lists.
PassesOnlyRemove ==
  [][result.Kind = "optimizing" =>
       /\ Registered' \subseteq Registered
       /\ (/\ result.pc = "call"
           /\ result'.Kind = "optimizing"
           /\ result'.didContractEdges) => Registered' # Registered]_vars

\* A running optimize() returns.
OptimizeReturns == (result.Kind = "optimizing") ~> (result.Kind = "returned")

\* C32 (as stated): optimize() returns after finitely many passes, each
\* pass that reports a contraction having removed a constraint and none
\* having added one, and on return no registered constraint meets the
\* contraction conditions of section 4.E.
C32_OptimizeTerminates ==
  /\ PassesOnlyRemove
  /\ OptimizeReturns
  /\ [](result.Kind = "returned" => \A c \in Registered : ~MeetsStatedConditions(c))

\* C32 (amended): the same, the conditions being those contractEdges()
\* tests.
C32_OptimizeTerminatesTested ==
  /\ PassesOnlyRemove
  /\ OptimizeReturns
  /\ [](result.Kind = "returned" => \A c \in Registered : ~MeetsTestedConditions(c))

\* C32 witness: optimize() has returned after three passes, the first two
\* having contracted, with the conversion of $T1 to $T2 still registered.
C32_Witness ==
  /\ result.Kind = "returned"
  /\ result.passes = 3
  /\ Registered = {9}

\* --------------------------------------------------------------------------
\* Scopes that only add and remove constraints.

\* The journal entries the innermost open scope would undo come from
\* addConstraint and removeConstraint calls only (and from the nodes those
\* calls created).
OnlyConstraintChanges ==
  /\ scopes # <<>>
  /\ \A i \in (scopes[Len(scopes)].NumChanges + 1)..Len(Changes) :
        Changes[i].Kind \in {"AddedConstraint", "RemovedConstraint",
                             "AddedTypeVariable"}

\* C33: when a scope under which only constraints were added and removed
\* is destroyed, the same type variables have nodes as when it opened,
\* every node holds the same set of constraints, its index map being the
\* inverse of its constraint vector, and OrphanedConstraints holds the same
\* set of constraints; the order of the vectors is not compared.
C33_SetLevelReversible ==
  [][(OnlyConstraintChanges /\ lastScope' # NoScope /\ ~aborted') =>
       LET opened == scopes[Len(scopes)].opened
       IN /\ \A tv \in TypeVars :
               LET before == opened.GraphNode[tv]
                   after == GraphNode'[tv]
               IN /\ (before = NullNode) = (after = NullNode)
                  /\ after # NullNode =>
                       /\ Range(after.Constraints) = Range(before.Constraints)
                       /\ Len(after.Constraints) = Len(before.Constraints)
                       /\ IndexMapIsInverse(after)
          /\ Range(OrphanedConstraints') = Range(opened.OrphanedConstraints)
          /\ Len(OrphanedConstraints') = Len(opened.OrphanedConstraints)]_vars

\* C33 witness: a scope under which the first of two orphaned constraints
\* was removed has been destroyed, the constraint system's own state being
\* what it was; the orphaned constraints are back in the other order.
C33_Witness ==
  /\ lastScope # NoScope /\ ~aborted
  /\ lastScope.opened.OrphanedConstraints = <<3, 4>>
  /\ OrphanedConstraints = <<4, 3>>
  /\ Representative = lastScope.Representative
  /\ FixedType = lastScope.FixedType
  /\ TypeVariables = <<>>

\* --------------------------------------------------------------------------
\* Node removal during an unwind.

\* C34: when the switch of undo runs on an AddedTypeVariable entry, its
\* type variable is the last of TypeVariables and its graph index is that
\* slot; the step pops it, destroys its node, and leaves every other listed
\* type variable in its slot with its node and with a graph index that
\* names the slot.
C34_RemoveNodePopsTail ==
  [][(/\ result.Kind = "destroying" /\ result.pc = "undo"
      /\ Changes[Len(Changes)].Kind = "AddedTypeVariable"
      /\ ~aborted') =>
       LET tv == Changes[Len(Changes)].TypeVar
       IN /\ TypeVariables # <<>>
          /\ TypeVariables[Len(TypeVariables)] = tv
          /\ GraphIndex[tv] = Len(TypeVariables) - 1
          /\ TypeVariables' = PopBack(TypeVariables)
          /\ GraphNode'[tv] = NullNode
          /\ \A i \in 1..Len(TypeVariables') :
                /\ GraphNode'[TypeVariables'[i]] # NullNode
                /\ GraphIndex'[TypeVariables'[i]] = i - 1]_vars

\* C34 witness: the inner of two nested scopes is being destroyed and undo
\* has just removed the node it created, after a node created outside
\* every scope and one created under the outer scope, both still listed.
C34_Witness ==
  /\ ~aborted
  /\ result.Kind = "destroying" /\ result.pc = "pop"
  /\ Len(scopes) = 2
  /\ result.undone[Len(result.undone)].Kind = "AddedTypeVariable"
  /\ Len(TypeVariables) = 2
  /\ Len(Changes) = 2
  /\ Changes[1].Kind = "AddedTypeVariable"
  /\ Changes[1].TypeVar = TypeVariables[2]

\* --------------------------------------------------------------------------
\* The assertions of the sub-component assembly.

\* The step is a computeConnectedComponents call: a solver operation that
\* leaves the constraint system's own state alone.
ComputesComponents ==
  /\ ops' = ops + 1
  /\ InactiveConstraints' = InactiveConstraints
  /\ Representative' = Representative
  /\ FixedType' = FixedType

\* C35: no computeConnectedComponents call fails an assertion; those of the
\* sub-component assembly are the only ones it can reach.
C35_DependencyAssertionsHold ==
  [][ComputesComponents => ~aborted']_vars

====
